---- MODULE Spec2Model ----
(***************************************************************************)
(* Per-chat settings and transcription dispatch of the Telegram            *)
(* speech-to-text bot (src/bot.py, src/db.py, src/transcribe.py).          *)
(*                                                                         *)
(* Spec        the settings layer: the user_settings table, the three     *)
(*             per-chat caches in bot_data, the settings commands, the     *)
(*             administrator update and the store writes handed to worker  *)
(*             threads.                                                    *)
(* SpecReq     one media request through handle_audio: download, option   *)
(*             building, primary and fallback provider call, replies.      *)
(* SpecExtract _extract_text_from_deepgram_response applied to bounded     *)
(*             provider responses.                                         *)
(***************************************************************************)
EXTENDS Integers, Sequences, FiniteSets, TLC

\* ------------------------------------------------------------------ bounds
\* Number of command handlers started in one behaviour.
MaxOps == 3
\* Longest transcript string of a provider response, in characters.
MaxStrLen == 2
\* Most utterances of a provider response.
MaxUtt == 2
\* Media requests handled one after the other in one behaviour.
MaxReqs == 1
\* Command handlers started, step by step, in one behaviour.
MaxCmds == 2

\* --------------------------------------------------------------- constants
ADMIN_USER_ID == 1578783338

Chats == {1, 2}
Users == {ADMIN_USER_ID, 42}

\* Python's None, and an absent cache entry / table row.
None == [none |-> TRUE]
\* A dict handed to a worker thread by reference (the cached dict itself).
ByRef == [ref |-> TRUE]

\* No cached UI language: store.get(chat_id) gives None, falsy like "".
NoLang == ""

\* The argument of a command that was sent without one (len(parts) < 2).
NoArg == "<none>"

_LANG_DEFAULT == [detect_language |-> FALSE, language |-> "en-US", model |-> ""]
_TI_DEFAULT ==
    [language |-> "en", summarize |-> "v2", topics |-> TRUE, intents |-> TRUE,
     sentiment |-> TRUE]

\* ---------------------------------------------------------------- variables
VARIABLES
    db_enabled,     \* _ensure_pool() is not None: a store is configured
    user_settings,  \* the table: chat_id -> row, or None when there is no row
    lang_cfg,       \* bot_data["_lang_cfg"]: chat_id -> speech dict, or None
    ti_cfg,         \* bot_data["_ti_cfg"]:   chat_id -> analysis dict, or None
    ui_lang,        \* bot_data["_ui_lang"]:  chat_id -> "en" | "vi", or NoLang
    threads,        \* store writes handed to asyncio.to_thread, not yet run
    nops,           \* command handlers started so far
    written,        \* history: chats some settings write was made for
    last_read,      \* history: the last speech-settings read and its result
    last_write,     \* history: the last store write that ran
    req,            \* the media request being handled by handle_audio
    nreqs,          \* media and analysis requests started so far
    _DG_V3_AVAILABLE, \* text_intelligence: the analysis SDK was imported
    response,       \* SpecExtract: the provider response under extraction
    extracted,      \* SpecExtract: the text extracted from it, or None
    cmds,           \* SpecCmd: the command handlers started, in start order
    loads           \* history: store reads made by the cache getters

settings_vars == <<db_enabled, user_settings, lang_cfg, ti_cfg, ui_lang, threads,
                   nops, written, last_read, last_write>>
req_vars == <<req, nreqs, _DG_V3_AVAILABLE>>
extract_vars == <<response, extracted>>
cmd_vars == <<cmds, loads>>
vars == <<db_enabled, user_settings, lang_cfg, ti_cfg, ui_lang, threads, nops,
          written, last_read, last_write, req, nreqs, _DG_V3_AVAILABLE,
          response, extracted,
          cmds, loads>>

\* ------------------------------------------------------------ text helpers
\* str.lower() on the argument texts the model sends.
Lower(s) ==
    CASE s = "AUTO" -> "auto"
      [] s = "OFF" -> "off"
      [] s = "V2" -> "v2"
      [] s = "On" -> "on"
      [] s = "YES" -> "yes"
      [] s = "Vietnamese" -> "vietnamese"
      [] s = "Auto" -> "auto"
      [] OTHER -> s

\* Python's `v or d` on a string column.
OrDefault(v, d) == IF v = "" THEN d ELSE v

\* dict.get(key, default)
DictGet(cfg, key, default) == IF key \in DOMAIN cfg THEN cfg[key] ELSE default

SpeechOf(row) ==
    [language |-> row.language, detect_language |-> row.detect_language,
     model |-> row.model]
AnalysisOf(row) ==
    [language |-> row.ti_language, summarize |-> row.summarize,
     topics |-> row.topics, intents |-> row.intents, sentiment |-> row.sentiment]

\* ------------------------------------------------------- the store (db.py)
\* get_lang_settings answering a missing row with the analysis default language.
get_lang_settings_wrong_default(chat_id) ==
    IF ~db_enabled THEN _LANG_DEFAULT
    ELSE LET row == user_settings[chat_id] IN
         IF row = None THEN [_LANG_DEFAULT EXCEPT !.language = _TI_DEFAULT.language]
         ELSE [language |-> OrDefault(row.language, _LANG_DEFAULT.language),
               detect_language |-> row.detect_language,
               model |-> OrDefault(row.model, _LANG_DEFAULT.model)]

get_lang_settings(chat_id) ==
    IF ~db_enabled THEN _LANG_DEFAULT
    ELSE LET row == user_settings[chat_id] IN
         IF row = None THEN _LANG_DEFAULT
         ELSE [language |-> OrDefault(row.language, _LANG_DEFAULT.language),
               detect_language |-> row.detect_language,
               model |-> OrDefault(row.model, _LANG_DEFAULT.model)]

get_ti_settings(chat_id) ==
    IF ~db_enabled THEN _TI_DEFAULT
    ELSE LET row == user_settings[chat_id] IN
         IF row = None THEN _TI_DEFAULT
         ELSE [language |-> OrDefault(row.ti_language, _TI_DEFAULT.language),
               summarize |-> OrDefault(row.summarize, _TI_DEFAULT.summarize),
               topics |-> row.topics,
               intents |-> row.intents,
               sentiment |-> row.sentiment]

\* A speech upsert written as "insert or replace": the conflicting row is
\* rebuilt from the insert's values, analysis defaults included.
save_lang_settings_replace(chat_id, cfg) ==
    IF ~db_enabled THEN user_settings
    ELSE [user_settings EXCEPT ![chat_id] =
            [language |-> DictGet(cfg, "language", _LANG_DEFAULT.language),
             detect_language |->
                DictGet(cfg, "detect_language", _LANG_DEFAULT.detect_language),
             model |-> DictGet(cfg, "model", _LANG_DEFAULT.model),
             ti_language |-> "en", summarize |-> "v2", topics |-> TRUE,
             intents |-> TRUE, sentiment |-> TRUE,
             ui_language |-> IF @ = None THEN "en" ELSE @.ui_language]]

\* The table after save_lang_settings(chat_id, cfg).
save_lang_settings(chat_id, cfg) ==
    IF ~db_enabled THEN user_settings
    ELSE LET language == DictGet(cfg, "language", _LANG_DEFAULT.language)
             detect_language ==
                DictGet(cfg, "detect_language", _LANG_DEFAULT.detect_language)
             model == DictGet(cfg, "model", _LANG_DEFAULT.model)
         IN  IF user_settings[chat_id] = None
             THEN [user_settings EXCEPT ![chat_id] =
                     [language |-> language, detect_language |-> detect_language,
                      model |-> model,
                      ti_language |-> "en", summarize |-> "v2", topics |-> TRUE,
                      intents |-> TRUE, sentiment |-> TRUE,
                      ui_language |-> "en"]]
             ELSE [user_settings EXCEPT ![chat_id] =
                     [@ EXCEPT !.language = language,
                               !.detect_language = detect_language,
                               !.model = model]]

\* An analysis upsert whose insert gives the speech language the analysis
\* default "en" instead of the column default "en-US".
save_ti_settings_insert_en(chat_id, cfg) ==
    IF ~db_enabled THEN user_settings
    ELSE LET ti_language == DictGet(cfg, "language", _TI_DEFAULT.language)
             summarize == DictGet(cfg, "summarize", _TI_DEFAULT.summarize)
             topics == DictGet(cfg, "topics", _TI_DEFAULT.topics)
             intents == DictGet(cfg, "intents", _TI_DEFAULT.intents)
             sentiment == DictGet(cfg, "sentiment", _TI_DEFAULT.sentiment)
         IN  IF user_settings[chat_id] = None
             THEN [user_settings EXCEPT ![chat_id] =
                     [language |-> "en", detect_language |-> FALSE,
                      model |-> "",
                      ti_language |-> ti_language, summarize |-> summarize,
                      topics |-> topics, intents |-> intents,
                      sentiment |-> sentiment, ui_language |-> "en"]]
             ELSE [user_settings EXCEPT ![chat_id] =
                     [@ EXCEPT !.ti_language = ti_language,
                               !.summarize = summarize, !.topics = topics,
                               !.intents = intents, !.sentiment = sentiment]]

\* An analysis upsert without the `if not pool: return` guard.
save_ti_settings_unguarded(chat_id, cfg) ==
    LET ti_language == DictGet(cfg, "language", _TI_DEFAULT.language)
        summarize == DictGet(cfg, "summarize", _TI_DEFAULT.summarize)
        topics == DictGet(cfg, "topics", _TI_DEFAULT.topics)
        intents == DictGet(cfg, "intents", _TI_DEFAULT.intents)
        sentiment == DictGet(cfg, "sentiment", _TI_DEFAULT.sentiment)
    IN  IF user_settings[chat_id] = None
        THEN [user_settings EXCEPT ![chat_id] =
                [language |-> "en-US", detect_language |-> FALSE, model |-> "",
                 ti_language |-> ti_language, summarize |-> summarize,
                 topics |-> topics, intents |-> intents,
                 sentiment |-> sentiment, ui_language |-> "en"]]
        ELSE [user_settings EXCEPT ![chat_id] =
                [@ EXCEPT !.ti_language = ti_language,
                          !.summarize = summarize, !.topics = topics,
                          !.intents = intents, !.sentiment = sentiment]]

\* The table after save_ti_settings(chat_id, cfg).
save_ti_settings(chat_id, cfg) ==
    IF ~db_enabled THEN user_settings
    ELSE LET ti_language == DictGet(cfg, "language", _TI_DEFAULT.language)
             summarize == DictGet(cfg, "summarize", _TI_DEFAULT.summarize)
             topics == DictGet(cfg, "topics", _TI_DEFAULT.topics)
             intents == DictGet(cfg, "intents", _TI_DEFAULT.intents)
             sentiment == DictGet(cfg, "sentiment", _TI_DEFAULT.sentiment)
         IN  IF user_settings[chat_id] = None
             THEN [user_settings EXCEPT ![chat_id] =
                     [language |-> "en-US", detect_language |-> FALSE,
                      model |-> "",
                      ti_language |-> ti_language, summarize |-> summarize,
                      topics |-> topics, intents |-> intents,
                      sentiment |-> sentiment,
                      ui_language |-> "en"]]
             ELSE [user_settings EXCEPT ![chat_id] =
                     [@ EXCEPT !.ti_language = ti_language,
                               !.summarize = summarize,
                               !.topics = topics,
                               !.intents = intents,
                               !.sentiment = sentiment]]

\* ------------------------------------------------ the caches (bot.py)
\* The dict _get_lang_cfg returns; on a miss it is loaded and cached.
_get_lang_cfg(chat_id) ==
    IF lang_cfg[chat_id] # None THEN lang_cfg[chat_id]
    ELSE get_lang_settings(chat_id)

\* A getter that asks the store every time, cached or not.
_get_ti_cfg_reload(chat_id) == get_ti_settings(chat_id)

_get_ti_cfg(chat_id) ==
    IF ti_cfg[chat_id] # None THEN ti_cfg[chat_id]
    ELSE get_ti_settings(chat_id)

\* An identity check that passes every caller who has a user id.
_is_admin_any_user(uid) == uid \in Users

_is_admin(uid) == uid = ADMIN_USER_ID

\* Optional[bool]: Some(b), or None.
Some(b) == [value |-> b]

_parse_bool(value) ==
    LET v == Lower(value) IN
    IF v \in {"on", "true", "yes", "1"} THEN Some(TRUE)
    ELSE IF v \in {"off", "false", "no", "0"} THEN Some(FALSE)
    ELSE None

\* int(text): Some(n), or None where int() raises.
ParseInt(text) ==
    CASE text = "1" -> Some(1)
      [] text = "2" -> Some(2)
      [] OTHER -> None

\* ------------------------------------------------------------------- Init
\* The three setting groups, each with its own cache in bot_data.
Groups == {"speech", "analysis", "ui"}
\* No store read was made yet by a cache getter.
NoLoads == [g \in Groups |-> [c \in Chats |-> 0]]

\* No request: handle_audio is not running.
NoReq ==
    [pc |-> "idle", chat_id |-> 0, cfg |-> None, dg_opts |-> None,
     calls |-> <<>>, primary_error |-> <<>>, error |-> <<>>, kind |-> "",
     text |-> <<>>, sent |-> <<>>, temp_dir |-> "none"]

Init ==
    /\ db_enabled \in BOOLEAN
    /\ user_settings = [c \in Chats |-> None]
    /\ lang_cfg = [c \in Chats |-> None]
    /\ ti_cfg = [c \in Chats |-> None]
    /\ ui_lang = [c \in Chats |-> NoLang]
    /\ threads = {}
    /\ nops = 0
    /\ written = {}
    /\ last_read = None
    /\ last_write = None
    /\ req = NoReq
    /\ nreqs = 0
    /\ _DG_V3_AVAILABLE = FALSE
    /\ response = None
    /\ extracted = None
    /\ cmds = <<>>
    /\ loads = NoLoads

\* -------------------------------------------------- speech commands
LangArgs == {NoArg, "AUTO", "vi"}
DetectArgs == {"on", "OFF", "yes"}
ModelArgs == {NoArg, "whisper-x"}

\* A /lang that sets the language and leaves detect_language as it was.
lang_cmd_keeps_detect(chat_id, arg) ==
    /\ nops < MaxOps
    /\ nops' = nops + 1
    /\ IF arg = NoArg
       THEN UNCHANGED <<lang_cfg, threads, written>>
       ELSE LET cfg == _get_lang_cfg(chat_id)
                new == IF Lower(arg) = "auto"
                       THEN [cfg EXCEPT !.detect_language = TRUE]
                       ELSE [cfg EXCEPT !.language = arg]
            IN  /\ lang_cfg' = [lang_cfg EXCEPT ![chat_id] = new]
                /\ threads' = threads \cup
                      {[fn |-> "save_lang_settings", chat_id |-> chat_id,
                        cfg |-> ByRef]}
                /\ written' = written \cup {chat_id}
    /\ UNCHANGED <<db_enabled, user_settings, ti_cfg, ui_lang, last_read,
                   last_write, req_vars, extract_vars,
                   cmd_vars>>

\* /lang <code|auto>
lang_cmd(chat_id, arg) ==
    /\ nops < MaxOps
    /\ nops' = nops + 1
    /\ IF arg = NoArg
       THEN UNCHANGED <<lang_cfg, threads, written>>
       ELSE LET cfg == _get_lang_cfg(chat_id)
                new == IF Lower(arg) = "auto"
                       THEN [cfg EXCEPT !.detect_language = TRUE]
                       ELSE [cfg EXCEPT !.language = arg,
                                        !.detect_language = FALSE]
            IN  /\ lang_cfg' = [lang_cfg EXCEPT ![chat_id] = new]
                /\ threads' = threads \cup
                      {[fn |-> "save_lang_settings", chat_id |-> chat_id,
                        cfg |-> ByRef]}
                /\ written' = written \cup {chat_id}
    /\ UNCHANGED <<db_enabled, user_settings, ti_cfg, ui_lang, last_read,
                   last_write, req_vars, extract_vars,
                   cmd_vars>>

\* /detect <on|off>
detect_cmd(chat_id, arg) ==
    /\ nops < MaxOps
    /\ nops' = nops + 1
    /\ IF arg = NoArg \/ Lower(arg) \notin {"on", "off"}
       THEN UNCHANGED <<lang_cfg, threads, written>>
       ELSE LET cfg == _get_lang_cfg(chat_id)
                new == [cfg EXCEPT !.detect_language = (Lower(arg) = "on")]
            IN  /\ lang_cfg' = [lang_cfg EXCEPT ![chat_id] = new]
                /\ threads' = threads \cup
                      {[fn |-> "save_lang_settings", chat_id |-> chat_id,
                        cfg |-> ByRef]}
                /\ written' = written \cup {chat_id}
    /\ UNCHANGED <<db_enabled, user_settings, ti_cfg, ui_lang, last_read,
                   last_write, req_vars, extract_vars,
                   cmd_vars>>

\* /model [name]
model_cmd(chat_id, arg) ==
    /\ nops < MaxOps
    /\ nops' = nops + 1
    /\ LET cfg == _get_lang_cfg(chat_id)
           new == [cfg EXCEPT !.model = IF arg = NoArg THEN "" ELSE arg]
       IN  /\ lang_cfg' = [lang_cfg EXCEPT ![chat_id] = new]
           /\ threads' = threads \cup
                 {[fn |-> "save_lang_settings", chat_id |-> chat_id,
                   cfg |-> ByRef]}
           /\ written' = written \cup {chat_id}
    /\ UNCHANGED <<db_enabled, user_settings, ti_cfg, ui_lang, last_read,
                   last_write, req_vars, extract_vars,
                   cmd_vars>>

\* /status: reads the speech settings through the cache.
status_cmd(chat_id) ==
    /\ nops < MaxOps
    /\ nops' = nops + 1
    /\ LET cfg == _get_lang_cfg(chat_id)
       IN  /\ lang_cfg' = [lang_cfg EXCEPT ![chat_id] = cfg]
           /\ last_read' = [chat_id |-> chat_id, via |-> "cache", value |-> cfg]
    /\ UNCHANGED <<db_enabled, user_settings, ti_cfg, ui_lang, threads, written,
                   last_write, req_vars, extract_vars,
                   cmd_vars>>

\* /adminget [chat_id]: reads the stored settings, past the cache.
admin_get_cmd(uid, chat_id) ==
    /\ nops < MaxOps
    /\ nops' = nops + 1
    /\ IF ~_is_admin(uid)
       THEN UNCHANGED last_read
       ELSE last_read' = [chat_id |-> chat_id, via |-> "store",
                          value |-> get_lang_settings(chat_id)]
    /\ UNCHANGED <<db_enabled, user_settings, lang_cfg, ti_cfg, ui_lang, threads,
                   written, last_write, req_vars, extract_vars,
                   cmd_vars>>

\* ------------------------------------------------ analysis commands
SummarizeArgs == {"OFF", "v2", "v1"}

\* /summarize <off|v2>
summarize_cmd(chat_id, arg) ==
    /\ nops < MaxOps
    /\ nops' = nops + 1
    /\ IF arg = NoArg \/ Lower(arg) \notin {"off", "v2"}
       THEN UNCHANGED <<ti_cfg, threads, written>>
       ELSE LET cfg == _get_ti_cfg(chat_id)
                new == [cfg EXCEPT !.summarize = Lower(arg)]
            IN  /\ ti_cfg' = [ti_cfg EXCEPT ![chat_id] = new]
                /\ threads' = threads \cup
                      {[fn |-> "save_ti_settings", chat_id |-> chat_id,
                        cfg |-> ByRef]}
                /\ written' = written \cup {chat_id}
    /\ UNCHANGED <<db_enabled, user_settings, lang_cfg, ui_lang, last_read,
                   last_write, req_vars, extract_vars,
                   cmd_vars>>

\* ------------------------------------------------ administrator update
\* The <chat_id> texts and the <field> <value> pairs the model sends.
ChatArgs == {"1", "2", "abc"}
AdminInputs ==
    {<<"stt.language", "vi">>, <<"stt.detect_language", "On">>,
     <<"stt.detect_language", "maybe">>, <<"ti.summarize", "v1">>,
     <<"ti.topics", "OFF">>, <<"ti.topics", "nope">>,
     <<"stt.speed", "on">>, <<"model", "whisper-x">>, <<"stt.model", NoArg>>}

\* field.startswith("stt.") / field.startswith("ti."), and the key after it.
FieldGroup(field) ==
    CASE field \in {"stt.language", "stt.detect_language", "stt.model",
                    "stt.speed"} -> "stt"
      [] field \in {"ti.language", "ti.summarize", "ti.topics", "ti.intents",
                    "ti.sentiment", "ti.mood"} -> "ti"
      [] OTHER -> ""
FieldKey(field) ==
    CASE field = "stt.language" -> "language"
      [] field = "stt.detect_language" -> "detect_language"
      [] field = "stt.model" -> "model"
      [] field = "stt.speed" -> "speed"
      [] field = "ti.language" -> "language"
      [] field = "ti.summarize" -> "summarize"
      [] field = "ti.topics" -> "topics"
      [] field = "ti.intents" -> "intents"
      [] field = "ti.sentiment" -> "sentiment"
      [] field = "ti.mood" -> "mood"
      [] OTHER -> field

\* The worker-thread call admin_set_cmd submits, or None when it replies
\* without writing (not allowed, too few arguments, bad chat id, unknown
\* field, bad boolean).
admin_set_call(uid, chat_arg, field, value) ==
    LET chat == ParseInt(chat_arg)
        key == FieldKey(field)
    IN  IF ~_is_admin(uid) THEN None
        ELSE IF value = NoArg THEN None
        ELSE IF chat = None THEN None
        ELSE IF FieldGroup(field) = "stt"
        THEN IF key \notin {"language", "detect_language", "model"} THEN None
             ELSE LET current == get_lang_settings(chat.value) IN
                  IF key = "detect_language"
                  THEN IF _parse_bool(value) = None THEN None
                       ELSE [fn |-> "save_lang_settings", chat_id |-> chat.value,
                             cfg |-> [current EXCEPT
                                        ![key] = _parse_bool(value).value]]
                  ELSE [fn |-> "save_lang_settings", chat_id |-> chat.value,
                        cfg |-> [current EXCEPT ![key] = value]]
        ELSE IF FieldGroup(field) = "ti"
        THEN IF key \notin {"language", "summarize", "topics", "intents",
                            "sentiment"} THEN None
             ELSE LET current == get_ti_settings(chat.value) IN
                  IF key \in {"topics", "intents", "sentiment"}
                  THEN IF _parse_bool(value) = None THEN None
                       ELSE [fn |-> "save_ti_settings", chat_id |-> chat.value,
                             cfg |-> [current EXCEPT
                                        ![key] = _parse_bool(value).value]]
                  ELSE [fn |-> "save_ti_settings", chat_id |-> chat.value,
                        cfg |-> [current EXCEPT ![key] = value]]
        ELSE None

\* /adminset <chat_id> <stt|ti>.<field> <value>
admin_set_cmd(uid, chat_arg, field, value) ==
    /\ nops < MaxOps
    /\ nops' = nops + 1
    /\ LET call == admin_set_call(uid, chat_arg, field, value)
       IN  threads' = IF call = None THEN threads ELSE threads \cup {call}
    /\ UNCHANGED <<db_enabled, user_settings, lang_cfg, ti_cfg, ui_lang, written,
                   last_read, last_write, req_vars, extract_vars,
                   cmd_vars>>

\* ------------------------------------------------ worker threads
\* The dict a worker thread reads: the cached dict, as it is when the thread
\* runs, for a user command; the administrator's own copy otherwise.
ThreadCfg(th) ==
    IF th.cfg # ByRef THEN th.cfg
    ELSE IF th.fn = "save_lang_settings" THEN lang_cfg[th.chat_id]
    ELSE ti_cfg[th.chat_id]

\* asyncio.to_thread(db_save_*_settings, chat_id, cfg) runs and returns.
run_thread(th) ==
    /\ th \in threads
    /\ threads' = threads \ {th}
    /\ user_settings' =
          IF th.fn = "save_lang_settings"
          THEN save_lang_settings(th.chat_id, ThreadCfg(th))
          ELSE save_ti_settings(th.chat_id, ThreadCfg(th))
    /\ last_write' = [fn |-> th.fn, chat_id |-> th.chat_id,
                      existed |-> user_settings[th.chat_id] # None]
    /\ written' = written \cup {th.chat_id}
    /\ UNCHANGED <<db_enabled, lang_cfg, ti_cfg, ui_lang, nops, last_read,
                   req_vars, extract_vars,
                   cmd_vars>>

\* The store write raises (connection or statement error): nothing is stored.
fail_thread(th) ==
    /\ th \in threads
    /\ db_enabled
    /\ threads' = threads \ {th}
    /\ UNCHANGED <<db_enabled, user_settings, lang_cfg, ti_cfg, ui_lang, nops,
                   written, last_read, last_write, req_vars, extract_vars,
                   cmd_vars>>

\* ------------------------------------------------------------------ Spec
Next ==
    \/ \E c \in Chats, a \in LangArgs : lang_cmd(c, a)
    \/ \E c \in Chats, a \in DetectArgs : detect_cmd(c, a)
    \/ \E c \in Chats, a \in ModelArgs : model_cmd(c, a)
    \/ \E c \in Chats : status_cmd(c)
    \/ \E u \in Users, c \in Chats : admin_get_cmd(u, c)
    \/ \E c \in Chats, a \in SummarizeArgs : summarize_cmd(c, a)
    \/ \E u \in Users, c \in ChatArgs, fv \in AdminInputs :
          admin_set_cmd(u, c, fv[1], fv[2])
    \/ \E th \in threads : run_thread(th)
    \/ \E th \in threads : fail_thread(th)

Spec == Init /\ [][Next]_vars

\* ------------------------------------------- strings (transcribe.py)
\* A string is a sequence of characters; "\n" is the newline of str.join.
Chars == {"a", " "}
Str == UNION {[1..n -> Chars] : n \in 0..MaxStrLen}
IsSpace(ch) == ch \in {" ", "\n"}

\* str.strip()
RECURSIVE LStrip(_)
LStrip(s) ==
    IF s # <<>> /\ IsSpace(Head(s)) THEN LStrip(Tail(s)) ELSE s
RECURSIVE RStrip(_)
RStrip(s) ==
    IF s # <<>> /\ IsSpace(s[Len(s)]) THEN RStrip(SubSeq(s, 1, Len(s) - 1))
    ELSE s
Strip(s) == RStrip(LStrip(s))

\* "\n".join(parts)
RECURSIVE Join(_)
Join(parts) ==
    IF parts = <<>> THEN <<>>
    ELSE IF Len(parts) = 1 THEN parts[1]
    ELSE parts[1] \o <<"\n">> \o Join(Tail(parts))

\* [u.get("transcript", "").strip() for u in utterances if u.get("transcript")]
RECURSIVE UtteranceTexts(_)
UtteranceTexts(utterances) ==
    IF utterances = <<>> THEN <<>>
    ELSE LET u == Head(utterances)
             rest == UtteranceTexts(Tail(utterances))
         IN  IF "transcript" \in DOMAIN u /\ u.transcript # <<>>
             THEN <<Strip(u.transcript)>> \o rest
             ELSE rest

\* An alternative or an utterance: with a transcript, or without the key.
Items == {[transcript |-> t] : t \in Str} \cup {[confidence |-> 0]}
\* The provider responses: results.channels (only channels[0].alternatives[0]
\* is read) and results.utterances.
ChannelLists ==
    {<<>>, <<[alternatives |-> <<>>]>>}
       \cup {<<[alternatives |-> <<alt>>]>> : alt \in Items}
UtteranceLists == UNION {[1..n -> Items] : n \in 0..MaxUtt}
Responses ==
    {[channels |-> ch, utterances |-> ut] :
        ch \in ChannelLists, ut \in UtteranceLists}

_extract_text_from_deepgram_response(resp) ==
    LET channels == resp.channels
        alts == IF channels # <<>> THEN channels[1].alternatives ELSE <<>>
        utterances == resp.utterances
    IN  IF alts # <<>> /\ "transcript" \in DOMAIN alts[1]
        THEN Strip(alts[1].transcript)
        ELSE IF utterances # <<>>
        THEN Strip(Join(UtteranceTexts(utterances)))
        ELSE <<>>

\* TranscriptionResult.text over all the responses.
ResultTexts == {_extract_text_from_deepgram_response(r) : r \in Responses}

\* A response has arrived from the provider; nothing is extracted yet.
InitExtract ==
    /\ db_enabled = FALSE
    /\ user_settings = [c \in Chats |-> None]
    /\ lang_cfg = [c \in Chats |-> None]
    /\ ti_cfg = [c \in Chats |-> None]
    /\ ui_lang = [c \in Chats |-> NoLang]
    /\ threads = {}
    /\ nops = 0
    /\ written = {}
    /\ last_read = None
    /\ last_write = None
    /\ req = NoReq
    /\ nreqs = 0
    /\ _DG_V3_AVAILABLE = FALSE
    /\ response \in Responses
    /\ extracted = None
    /\ cmds = <<>>
    /\ loads = NoLoads

\* transcribe_file extracts the text of the response it got.
extract ==
    /\ extracted = None
    /\ extracted' = [text |-> _extract_text_from_deepgram_response(response)]
    /\ UNCHANGED <<settings_vars, req_vars, response, cmd_vars>>

NextExtract == extract

SpecExtract == InitExtract /\ [][NextExtract]_vars

\* ------------------------------------ the UI language (db.py, bot.py)
\* str(v).lower().startswith("vi") on the language texts of the model.
StartsWithVi(s) == Lower(s) \in {"vi", "vi-vn", "viet", "vietnamese"}

get_ui_language(chat_id) ==
    IF ~db_enabled THEN "en"
    ELSE LET row == user_settings[chat_id] IN
         IF row = None \/ row.ui_language = "" THEN "en"
         ELSE IF StartsWithVi(row.ui_language) THEN "vi" ELSE "en"

\* A UI-language upsert that rebuilds the conflicting row from the insert's
\* values, speech and analysis defaults included.
save_ui_language_replace(chat_id, lang) ==
    IF ~db_enabled THEN user_settings
    ELSE [user_settings EXCEPT ![chat_id] =
            [language |-> "en-US", detect_language |-> FALSE, model |-> "",
             ti_language |-> "en", summarize |-> "v2", topics |-> TRUE,
             intents |-> TRUE, sentiment |-> TRUE,
             ui_language |-> IF StartsWithVi(lang) THEN "vi" ELSE "en"]]

\* The table after save_ui_language(chat_id, lang).
save_ui_language(chat_id, lang) ==
    IF ~db_enabled THEN user_settings
    ELSE LET ui_language == IF StartsWithVi(lang) THEN "vi" ELSE "en"
         IN  IF user_settings[chat_id] = None
             THEN [user_settings EXCEPT ![chat_id] =
                     [language |-> "en-US", detect_language |-> FALSE,
                      model |-> "",
                      ti_language |-> "en", summarize |-> "v2", topics |-> TRUE,
                      intents |-> TRUE, sentiment |-> TRUE,
                      ui_language |-> ui_language]]
             ELSE [user_settings EXCEPT ![chat_id] =
                     [@ EXCEPT !.ui_language = ui_language]]

\* The value _get_ui_lang returns; on a miss it is loaded and cached.
_get_ui_lang(chat_id) ==
    IF ui_lang[chat_id] # NoLang THEN ui_lang[chat_id]
    ELSE get_ui_language(chat_id)

\* A parser that takes an unknown word as the language itself.
_parse_ui_lang_any(arg) ==
    LET a == Lower(arg) IN
    IF a \in {"vi", "vietnamese", "viet", "tieng viet", "vn"} THEN "vi"
    ELSE IF a \in {"en", "english"} THEN "en"
    ELSE a

_parse_ui_lang(arg) ==
    LET a == Lower(arg) IN
    IF a \in {"vi", "vietnamese", "viet", "tieng viet", "vn"} THEN "vi"
    ELSE IF a \in {"en", "english"} THEN "en"
    ELSE ""

\* _parse_bool_arg(parts[1] if len(parts) > 1 else "")
_parse_bool_arg(text) ==
    LET a == IF text = NoArg THEN "" ELSE Lower(text) IN
    IF a \in {"on", "true", "yes", "1"} THEN Some(TRUE)
    ELSE IF a \in {"off", "false", "no", "0"} THEN Some(FALSE)
    ELSE None

\* The load counters after a cache getter ran for (group, chat_id): a miss
\* is one store read.
CountLoad(counts, group, chat_id, miss) ==
    IF miss THEN [counts EXCEPT ![group][chat_id] = @ + 1] ELSE counts

\* t(update, context, key): the text is looked up in the chat's UI language,
\* which _get_ui_lang resolves through its cache (loading it on a miss).
T(chat_id) ==
    /\ ui_lang' = [ui_lang EXCEPT ![chat_id] = _get_ui_lang(chat_id)]
    /\ loads' = CountLoad(loads, "ui", chat_id, ui_lang[chat_id] = NoLang)

\* ------------------------------------------- handle_audio (bot.py)
\* dict[key] = value
DictSet(d, key, value) ==
    [k \in DOMAIN d \cup {key} |-> IF k = key THEN value ELSE d[k]]

\* The option builder with the Vietnamese default applied whenever the
\* language is Vietnamese, a chosen model or not.
dg_opts_override_model(cfg) ==
    LET base == IF cfg.detect_language THEN [detect_language |-> TRUE]
                ELSE [language |-> cfg.language]
        with_model == IF cfg.model # "" THEN DictSet(base, "model", cfg.model)
                      ELSE base
    IN  IF "language" \in DOMAIN with_model
           /\ with_model.language \in {"vi", "vi-VN"}
        THEN DictSet(with_model, "model", "nova-2")
        ELSE with_model

\* The option builder with the Vietnamese default decided on the stored
\* language instead of the language of the options.
dg_opts_stored_language(cfg) ==
    LET base == IF cfg.detect_language THEN [detect_language |-> TRUE]
                ELSE [language |-> cfg.language]
        with_model == IF cfg.model # "" THEN DictSet(base, "model", cfg.model)
                      ELSE base
    IN  IF cfg.language \in {"vi", "vi-VN"} /\ cfg.model = ""
        THEN DictSet(with_model, "model", "nova-2")
        ELSE with_model

\* The options handle_audio builds from the speech settings.
dg_opts(cfg) ==
    LET base == IF cfg.detect_language THEN [detect_language |-> TRUE]
                ELSE [language |-> cfg.language]
        with_model == IF cfg.model # "" THEN DictSet(base, "model", cfg.model)
                      ELSE base
    IN  IF "language" \in DOMAIN with_model
           /\ with_model.language \in {"vi", "vi-VN"}
           /\ cfg.model = ""
        THEN DictSet(with_model, "model", "nova-2")
        ELSE with_model

\* The fallback options keeping the model of the primary options.
fb_opts_keep_model(opts) ==
    IF "model" \in DOMAIN opts
    THEN [detect_language |-> TRUE, model |-> opts.model]
    ELSE [detect_language |-> TRUE]

\* The options of the fallback call, made after the call with `opts` failed.
fb_opts(opts) == [detect_language |-> TRUE]

\* A failure text str(ex) is a sequence of fragments; `pat in msg`.
TokenHas(tok, pat) ==
    tok = pat \/ (tok = "language=vi-VN" /\ pat = "language=vi")
Contains(msg, pat) == \E i \in DOMAIN msg : TokenHas(msg[i], pat)

\* The failure texts of the provider, and of a reply that cannot be sent.
ProviderErrors ==
    {<<"DG: 400", "language=vi">>, <<"DG: 400", "language=vi-VN">>,
     <<"DG: 400", "language=en-US">>, <<"DG: 500", "language=vi">>,
     <<"Timed out">>}
ReplyError == <<"Timed out">>

\* The Vietnamese-language marker: a 400 status text naming language=vi.
IsViMarker(msg) ==
    /\ Contains(msg, "DG: 400")
    /\ (Contains(msg, "language=vi") \/ Contains(msg, "language=vi-VN"))

\* The message handle_audio's except branch chooses for str(ex): the
\* tailored remediation text, or the generic transcribe_failed.
failure_message(msg) ==
    IF IsViMarker(msg) THEN "vi_400_help" ELSE "transcribe_failed"

\* The speech settings a row of an earlier process lifetime may hold.
StoredSpeech ==
    {[language |-> l, detect_language |-> d, model |-> m] :
        l \in {"en-US", "vi", "vi-VN"}, d \in BOOLEAN, m \in {"", "whisper-x"}}

\* A process start: empty caches over a table that may hold a row written
\* in an earlier lifetime of the process.
InitReq ==
    /\ db_enabled \in BOOLEAN
    /\ user_settings \in
          [Chats -> {None} \cup
             {[language |-> sp.language, detect_language |-> sp.detect_language,
               model |-> sp.model,
               ti_language |-> "en", summarize |-> "v2", topics |-> TRUE,
               intents |-> TRUE, sentiment |-> TRUE, ui_language |-> "en"] :
                sp \in StoredSpeech}]
    /\ db_enabled \/ user_settings = [c \in Chats |-> None]
    /\ Cardinality({c \in Chats : user_settings[c] # None}) <= 1
    /\ lang_cfg = [c \in Chats |-> None]
    /\ ti_cfg = [c \in Chats |-> None]
    /\ ui_lang = [c \in Chats |-> NoLang]
    /\ threads = {}
    /\ nops = 0
    /\ written = {}
    /\ last_read = None
    /\ last_write = None
    /\ req = NoReq
    /\ nreqs = 0
    /\ _DG_V3_AVAILABLE = FALSE
    /\ response = None
    /\ extracted = None
    /\ cmds = <<>>
    /\ loads = NoLoads

\* A request start that puts the default speech settings into the cache,
\* whatever it holds.
start_request_defaults(chat_id) ==
    /\ req.pc \in {"idle", "done"}
    /\ nreqs < MaxReqs
    /\ nreqs' = nreqs + 1
    /\ lang_cfg' = [lang_cfg EXCEPT ![chat_id] = _LANG_DEFAULT]
    /\ loads' = CountLoad(loads, "speech", chat_id, lang_cfg[chat_id] = None)
    /\ req' = [NoReq EXCEPT !.pc = "download", !.chat_id = chat_id]
    /\ UNCHANGED <<db_enabled, user_settings, ti_cfg, ui_lang, threads, nops,
                   written, last_read, last_write, _DG_V3_AVAILABLE,
                   extract_vars, cmds>>

\* handle_audio up to the download: the speech settings are resolved.
start_request(chat_id) ==
    /\ req.pc \in {"idle", "done"}
    /\ nreqs < MaxReqs
    /\ nreqs' = nreqs + 1
    /\ lang_cfg' = [lang_cfg EXCEPT ![chat_id] = _get_lang_cfg(chat_id)]
    /\ loads' = CountLoad(loads, "speech", chat_id, lang_cfg[chat_id] = None)
    /\ req' = [NoReq EXCEPT !.pc = "download", !.chat_id = chat_id]
    /\ UNCHANGED <<db_enabled, user_settings, ti_cfg, ui_lang, threads, nops,
                   written, last_read, last_write, _DG_V3_AVAILABLE,
                   extract_vars, cmds>>

\* message.reply_text / reply_document: sent, or raising.
Sent(r, key) == [r EXCEPT !.sent = Append(@, key)]

\* _download_audio returns the downloaded file.
download_ok ==
    /\ req.pc = "download"
    /\ req' = [req EXCEPT !.pc = "notify", !.temp_dir = "exists"]
    /\ UNCHANGED <<settings_vars, nreqs, _DG_V3_AVAILABLE,
                   extract_vars,
                   cmd_vars>>

\* A download failure answered without the `return`: the handler goes on to
\* the progress notice and the provider call.
download_fail_no_return(reply_ok) ==
    /\ req.pc = "download"
    /\ req' = IF reply_ok
              THEN Sent([req EXCEPT !.pc = "notify", !.temp_dir = "removed"],
                        "couldnt_download_file")
              ELSE [req EXCEPT !.pc = "done", !.temp_dir = "removed"]
    /\ T(req.chat_id)
    /\ UNCHANGED <<db_enabled, user_settings, lang_cfg, ti_cfg, threads, nops,
                   written, last_read, last_write, nreqs, _DG_V3_AVAILABLE,
                   extract_vars,
                   cmds>>

\* _download_audio raises: its temp dir is removed, the user is told.
download_fail(reply_ok) ==
    /\ req.pc = "download"
    /\ req' = IF reply_ok
              THEN Sent([req EXCEPT !.pc = "done", !.temp_dir = "removed"],
                        "couldnt_download_file")
              ELSE [req EXCEPT !.pc = "done", !.temp_dir = "removed"]
    /\ T(req.chat_id)
    /\ UNCHANGED <<db_enabled, user_settings, lang_cfg, ti_cfg, threads, nops,
                   written, last_read, last_write, nreqs, _DG_V3_AVAILABLE,
                   extract_vars,
                   cmds>>

\* The progress notice is sent and the options are built.
notify_ok ==
    /\ req.pc = "notify"
    /\ req' = [Sent(req, "transcribing") EXCEPT
                 !.pc = "primary",
                 !.cfg = lang_cfg[req.chat_id],
                 !.dg_opts = dg_opts(lang_cfg[req.chat_id])]
    /\ T(req.chat_id)
    /\ UNCHANGED <<db_enabled, user_settings, lang_cfg, ti_cfg, threads, nops,
                   written, last_read, last_write, nreqs, _DG_V3_AVAILABLE,
                   extract_vars,
                   cmds>>

\* The progress notice cannot be sent: the except branch is entered.
notify_fail ==
    /\ req.pc = "notify"
    /\ req' = [req EXCEPT !.pc = "except", !.error = ReplyError]
    /\ T(req.chat_id)
    /\ UNCHANGED <<db_enabled, user_settings, lang_cfg, ti_cfg, threads, nops,
                   written, last_read, last_write, nreqs, _DG_V3_AVAILABLE,
                   extract_vars,
                   cmds>>

\* handle_audio treating an empty text like a failed call: it goes on to the
\* fallback call.
AfterResult_retry_empty(r, text) ==
    [r EXCEPT !.text = Strip(text),
              !.pc = IF Strip(text) = <<>>
                     THEN (IF Len(r.calls) = 1 THEN "fallback" ELSE "reply_empty")
                     ELSE "reply_document"]

\* After a successful call: text = result.text.strip().
AfterResult(r, text) ==
    [r EXCEPT !.text = Strip(text),
              !.pc = IF Strip(text) = <<>> THEN "reply_empty"
                     ELSE "reply_document"]

\* transcriber.transcribe_file(..., options=dg_opts) returns.
primary_ok(text) ==
    /\ req.pc = "primary"
    /\ req' = AfterResult(
                 [req EXCEPT !.calls =
                    Append(@, [options |-> req.dg_opts, ok |-> TRUE])], text)
    /\ UNCHANGED <<settings_vars, nreqs, _DG_V3_AVAILABLE,
                   extract_vars,
                   cmd_vars>>

\* transcriber.transcribe_file(..., options=dg_opts) raises.
primary_fail(msg) ==
    /\ req.pc = "primary"
    /\ req' = [req EXCEPT
                 !.calls = Append(@, [options |-> req.dg_opts, ok |-> FALSE]),
                 !.primary_error = msg,
                 !.pc = "fallback"]
    /\ UNCHANGED <<settings_vars, nreqs, _DG_V3_AVAILABLE,
                   extract_vars,
                   cmd_vars>>

\* transcriber.transcribe_file(..., options=fb_opts) returns.
fallback_ok(text) ==
    /\ req.pc = "fallback"
    /\ req' = AfterResult(
                 [req EXCEPT !.calls =
                    Append(@, [options |-> fb_opts(req.dg_opts), ok |-> TRUE])],
                 text)
    /\ UNCHANGED <<settings_vars, nreqs, _DG_V3_AVAILABLE,
                   extract_vars,
                   cmd_vars>>

\* transcriber.transcribe_file(..., options=fb_opts) raises: the exception
\* leaves the inner handler and reaches the except branch.
fallback_fail(msg) ==
    /\ req.pc = "fallback"
    /\ req' = [req EXCEPT
                 !.calls = Append(@, [options |-> fb_opts(req.dg_opts),
                                      ok |-> FALSE]),
                 !.error = msg,
                 !.pc = "except"]
    /\ UNCHANGED <<settings_vars, nreqs, _DG_V3_AVAILABLE,
                   extract_vars,
                   cmd_vars>>

\* An empty-transcription message without the `return` after it: the handler
\* goes on to write and send the result document.
reply_empty_no_return(reply_ok) ==
    /\ req.pc = "reply_empty"
    /\ req' = IF reply_ok
              THEN Sent([req EXCEPT !.pc = "reply_document"],
                        "transcription_empty")
              ELSE [req EXCEPT !.pc = "except", !.error = ReplyError]
    /\ T(req.chat_id)
    /\ UNCHANGED <<db_enabled, user_settings, lang_cfg, ti_cfg, threads, nops,
                   written, last_read, last_write, nreqs, _DG_V3_AVAILABLE,
                   extract_vars,
                   cmds>>

\* The empty-transcription message: sent (then return through finally), or
\* raising into the except branch.
reply_empty(reply_ok) ==
    /\ req.pc = "reply_empty"
    /\ req' = IF reply_ok
              THEN Sent([req EXCEPT !.pc = "done", !.temp_dir = "removed"],
                        "transcription_empty")
              ELSE [req EXCEPT !.pc = "except", !.error = ReplyError]
    /\ T(req.chat_id)
    /\ UNCHANGED <<db_enabled, user_settings, lang_cfg, ti_cfg, threads, nops,
                   written, last_read, last_write, nreqs, _DG_V3_AVAILABLE,
                   extract_vars,
                   cmds>>

\* The result document: sent, or raising into the except branch.
reply_document(reply_ok) ==
    /\ req.pc = "reply_document"
    /\ req' = IF reply_ok
              THEN Sent([req EXCEPT !.pc = "done", !.temp_dir = "removed"],
                        "document")
              ELSE [req EXCEPT !.pc = "except", !.error = ReplyError]
    /\ T(req.chat_id)
    /\ UNCHANGED <<db_enabled, user_settings, lang_cfg, ti_cfg, threads, nops,
                   written, last_read, last_write, nreqs, _DG_V3_AVAILABLE,
                   extract_vars,
                   cmds>>

\* An except branch with no finally after it: when the failure message
\* cannot be sent, the exception leaves the handler before the cleanup.
except_branch_no_finally(reply_ok) ==
    /\ req.pc = "except"
    /\ LET key == failure_message(req.error)
           r == [req EXCEPT !.pc = "done", !.kind = key]
       IN  req' = IF reply_ok THEN Sent([r EXCEPT !.temp_dir = "removed"], key)
                  ELSE r
    /\ IF failure_message(req.error) = "transcribe_failed"
       THEN T(req.chat_id)
       ELSE UNCHANGED <<ui_lang, loads>>
    /\ UNCHANGED <<db_enabled, user_settings, lang_cfg, ti_cfg, threads, nops,
                   written, last_read, last_write, nreqs, _DG_V3_AVAILABLE,
                   extract_vars,
                   cmds>>

\* except Exception as ex: the failure message for str(ex) is chosen and
\* sent (or cannot be sent); finally removes the temp dir.
except_branch(reply_ok) ==
    /\ req.pc = "except"
    /\ LET key == failure_message(req.error)
           r == [req EXCEPT !.pc = "done", !.kind = key, !.temp_dir = "removed"]
       IN  req' = IF reply_ok THEN Sent(r, key) ELSE r
    /\ IF failure_message(req.error) = "transcribe_failed"
       THEN T(req.chat_id)
       ELSE UNCHANGED <<ui_lang, loads>>
    /\ UNCHANGED <<db_enabled, user_settings, lang_cfg, ti_cfg, threads, nops,
                   written, last_read, last_write, nreqs, _DG_V3_AVAILABLE,
                   extract_vars,
                   cmds>>

NextReq ==
    \/ \E c \in Chats : start_request(c)
    \/ download_ok
    \/ \E ok \in BOOLEAN : download_fail(ok)
    \/ notify_ok
    \/ notify_fail
    \/ \E text \in ResultTexts : primary_ok(text)
    \/ \E msg \in ProviderErrors : primary_fail(msg)
    \/ \E text \in ResultTexts : fallback_ok(text)
    \/ \E msg \in ProviderErrors : fallback_fail(msg)
    \/ \E ok \in BOOLEAN : reply_empty(ok)
    \/ \E ok \in BOOLEAN : reply_document(ok)
    \/ \E ok \in BOOLEAN : except_branch(ok)

SpecReq == InitReq /\ [][NextReq]_vars

\* ------------------------------- command handlers, step by step (bot.py)
\* A handler runs from one await to the next without interruption; the
\* awaits are the replies and the store write handed to a worker thread.
\* A started handler with nothing decided yet.
NewCmd(name, uid, chat_id, arg) ==
    [name |-> name, uid |-> uid, chat_id |-> chat_id, arg |-> arg,
     accepted |-> FALSE,    \* the input passed validation
     steps |-> <<>>,        \* the awaits still to come: "reply", "write"
     call |-> None,         \* the store write it hands to a worker thread
     reply |-> "",          \* the reply it sends next
     t |-> FALSE,           \* the reply text is looked up with t()
     guarded |-> FALSE,     \* inside admin_set_cmd's try block
     group |-> "", key |-> "", value |-> None,  \* the field it sets
     read |-> None,         \* the settings it read
     reads |-> 0,           \* store reads it made itself, past the caches
     sent |-> <<>>,         \* the replies it sent
     write_result |-> "none",
     raised |-> ""]         \* the await at which an exception left it

Started(c) ==
    /\ Len(cmds) < MaxCmds
    /\ cmds' = Append(cmds, c)

\* A boolean command that takes every word other than the "on" words as
\* "off": it sets the field before it answers a bad word with the usage text.
SetTiBool_default_off(name, key, chat_id, arg) ==
    LET v == _parse_bool_arg(arg)
        c == NewCmd(name, 0, chat_id, arg)
        cfg == _get_ti_cfg(chat_id)
    IN  /\ ti_cfg' = [ti_cfg EXCEPT ![chat_id] =
                        [cfg EXCEPT ![key] = (v # None /\ v.value)]]
        /\ loads' = CountLoad(loads, "analysis", chat_id, ti_cfg[chat_id] = None)
        /\ IF v = None
           THEN Started([c EXCEPT !.steps = <<"reply">>, !.reply = "usage"])
           ELSE Started([c EXCEPT
                           !.accepted = TRUE,
                           !.steps = <<"reply", "write">>,
                           !.reply = "set",
                           !.call = [fn |-> "save_ti_settings",
                                     chat_id |-> chat_id, cfg |-> ByRef],
                           !.group = "analysis", !.key = key, !.value = v])

\* A boolean command that changes a copy of the stored group and caches the
\* copy, whatever the cache holds.
SetTiBool_from_store(name, key, chat_id, arg) ==
    LET v == _parse_bool_arg(arg)
        c == NewCmd(name, 0, chat_id, arg)
    IN  IF v = None
        THEN /\ Started([c EXCEPT !.steps = <<"reply">>, !.reply = "usage"])
             /\ UNCHANGED <<ti_cfg, loads>>
        ELSE LET cfg == get_ti_settings(chat_id) IN
             /\ ti_cfg' = [ti_cfg EXCEPT ![chat_id] =
                             [cfg EXCEPT ![key] = v.value]]
             /\ loads' = CountLoad(loads, "analysis", chat_id,
                                   ti_cfg[chat_id] = None)
             /\ Started([c EXCEPT
                           !.accepted = TRUE,
                           !.steps = <<"reply", "write">>,
                           !.reply = "set",
                           !.call = [fn |-> "save_ti_settings",
                                     chat_id |-> chat_id, cfg |-> ByRef],
                           !.group = "analysis", !.key = key, !.value = v])

\* /topics, /intents, /sentiment <on|off>
SetTiBool(name, key, chat_id, arg) ==
    LET v == _parse_bool_arg(arg)
        c == NewCmd(name, 0, chat_id, arg)
    IN  IF v = None
        THEN /\ Started([c EXCEPT !.steps = <<"reply">>, !.reply = "usage"])
             /\ UNCHANGED <<ti_cfg, loads>>
        ELSE LET cfg == _get_ti_cfg(chat_id) IN
             /\ ti_cfg' = [ti_cfg EXCEPT ![chat_id] =
                             [cfg EXCEPT ![key] = v.value]]
             /\ loads' = CountLoad(loads, "analysis", chat_id,
                                   ti_cfg[chat_id] = None)
             /\ Started([c EXCEPT
                           !.accepted = TRUE,
                           !.steps = <<"reply", "write">>,
                           !.reply = "set",
                           !.call = [fn |-> "save_ti_settings",
                                     chat_id |-> chat_id, cfg |-> ByRef],
                           !.group = "analysis", !.key = key, !.value = v])

topics_cmd(chat_id, arg) ==
    /\ SetTiBool("topics_cmd", "topics", chat_id, arg)
    /\ UNCHANGED <<db_enabled, user_settings, lang_cfg, ui_lang, threads, nops,
                   written, last_read, last_write, req_vars, extract_vars>>

intents_cmd(chat_id, arg) ==
    /\ SetTiBool("intents_cmd", "intents", chat_id, arg)
    /\ UNCHANGED <<db_enabled, user_settings, lang_cfg, ui_lang, threads, nops,
                   written, last_read, last_write, req_vars, extract_vars>>

\* /anstatus: reads the analysis settings through the cache.
ti_status_cmd(chat_id) ==
    LET cfg == _get_ti_cfg(chat_id) IN
    /\ ti_cfg' = [ti_cfg EXCEPT ![chat_id] = cfg]
    /\ loads' = CountLoad(loads, "analysis", chat_id, ti_cfg[chat_id] = None)
    /\ Started([NewCmd("ti_status_cmd", 0, chat_id, NoArg) EXCEPT
                  !.accepted = TRUE, !.steps = <<"reply">>,
                  !.reply = "settings", !.group = "analysis",
                  !.read = cfg])
    /\ UNCHANGED <<db_enabled, user_settings, lang_cfg, ui_lang, threads, nops,
                   written, last_read, last_write, req_vars, extract_vars>>

\* /language <English|Vietnamese|en|vi>
language_cmd(chat_id, arg) ==
    LET lang == IF arg = NoArg THEN "" ELSE _parse_ui_lang(arg)
        c == [NewCmd("language_cmd", 0, chat_id, arg) EXCEPT !.t = TRUE]
    IN  /\ IF lang = ""
           THEN /\ Started([c EXCEPT !.steps = <<"reply">>,
                                     !.reply = "language_usage"])
                /\ UNCHANGED ui_lang
           ELSE /\ ui_lang' = [ui_lang EXCEPT ![chat_id] = lang]
                /\ Started([c EXCEPT
                              !.accepted = TRUE,
                              !.steps = <<"write", "reply">>,
                              !.reply = IF lang = "vi" THEN "ui_lang_set_vi"
                                        ELSE "ui_lang_set_en",
                              !.call = [fn |-> "save_ui_language",
                                        chat_id |-> chat_id,
                                        cfg |-> [lang |-> lang]],
                              !.group = "ui", !.key = "ui_language",
                              !.value = Some(lang)])
        /\ UNCHANGED <<db_enabled, user_settings, lang_cfg, ti_cfg, threads,
                       nops, written, last_read, last_write, req_vars,
                       extract_vars, loads>>

\* /speechlang <English|Vietnamese|en|vi|auto>
speechlang_cmd(chat_id, arg) ==
    LET c == [NewCmd("speechlang_cmd", 0, chat_id, arg) EXCEPT !.t = TRUE]
        a == Lower(arg)
        cfg == _get_lang_cfg(chat_id)
        lang == _parse_ui_lang(a)
        write == [fn |-> "save_lang_settings", chat_id |-> chat_id,
                  cfg |-> ByRef]
    IN  /\ IF arg = NoArg
           THEN /\ Started([c EXCEPT !.steps = <<"reply">>,
                                     !.reply = "speechlang_usage"])
                /\ UNCHANGED <<lang_cfg, loads>>
           ELSE /\ loads' = CountLoad(loads, "speech", chat_id,
                                      lang_cfg[chat_id] = None)
                /\ IF a \in {"auto", "detect"}
                   THEN /\ lang_cfg' = [lang_cfg EXCEPT ![chat_id] =
                                          [cfg EXCEPT !.detect_language = TRUE]]
                        /\ Started([c EXCEPT
                                      !.accepted = TRUE,
                                      !.steps = <<"write", "reply">>,
                                      !.reply = "speechlang_set_auto",
                                      !.call = write, !.group = "speech",
                                      !.key = "detect_language",
                                      !.value = Some(TRUE)])
                   ELSE IF lang = ""
                   THEN /\ lang_cfg' = [lang_cfg EXCEPT ![chat_id] = cfg]
                        /\ Started([c EXCEPT !.steps = <<"reply">>,
                                             !.reply = "speechlang_usage"])
                   ELSE LET code == IF lang = "en" THEN "en-US" ELSE "vi" IN
                        /\ lang_cfg' = [lang_cfg EXCEPT ![chat_id] =
                                          [cfg EXCEPT !.language = code,
                                                      !.detect_language = FALSE]]
                        /\ Started([c EXCEPT
                                      !.accepted = TRUE,
                                      !.steps = <<"write", "reply">>,
                                      !.reply = IF lang = "en"
                                                THEN "speechlang_set_en"
                                                ELSE "speechlang_set_vi",
                                      !.call = write, !.group = "speech",
                                      !.key = "language",
                                      !.value = Some(code)])
        /\ UNCHANGED <<db_enabled, user_settings, ti_cfg, ui_lang, threads, nops,
                       written, last_read, last_write, req_vars, extract_vars>>

\* /adminset <chat_id> <stt|ti>.<field> <value>, up to its first await: the
\* store write of admin_set_call, or the reply that refuses the command.
admin_set_cmd_start(uid, chat_arg, field, value) ==
    LET call == admin_set_call(uid, chat_arg, field, value)
        chat == ParseInt(chat_arg)
        key == FieldKey(field)
        in_try == _is_admin(uid) /\ value # NoArg /\ chat # None
        known == \/ FieldGroup(field) = "stt"
                    /\ key \in {"language", "detect_language", "model"}
                 \/ FieldGroup(field) = "ti"
                    /\ key \in {"language", "summarize", "topics", "intents",
                                "sentiment"}
        c == NewCmd("admin_set_cmd", uid,
                    IF chat = None THEN 0 ELSE chat.value,
                    <<chat_arg, field, value>>)
    IN  /\ Started(
              IF call = None
              THEN [c EXCEPT !.steps = <<"reply">>,
                             !.reply = IF _is_admin(uid) THEN "refused"
                                       ELSE "not_allowed",
                             !.guarded = in_try,
                             !.reads = IF in_try /\ known THEN 1 ELSE 0]
              ELSE [c EXCEPT !.accepted = TRUE,
                             !.steps = <<"write", "reply">>,
                             !.reply = "updated",
                             !.guarded = TRUE,
                             !.call = call,
                             !.group = IF FieldGroup(field) = "stt"
                                       THEN "speech" ELSE "analysis",
                             !.key = key,
                             !.value = Some(call.cfg[key]),
                             !.reads = 1])
        /\ UNCHANGED <<settings_vars, req_vars, extract_vars, loads>>

\* /adminget <chat_id>, up to its reply: the stored settings are read.
admin_get_cmd_start(uid, chat_id) ==
    LET c == NewCmd("admin_get_cmd", uid, chat_id, NoArg) IN
    /\ Started(
          IF ~_is_admin(uid)
          THEN [c EXCEPT !.steps = <<"reply">>, !.reply = "not_allowed"]
          ELSE [c EXCEPT !.accepted = TRUE, !.steps = <<"reply">>,
                         !.reply = "settings",
                         !.read = [lang |-> get_lang_settings(chat_id),
                                   ti |-> get_ti_settings(chat_id)],
                         !.reads = 2])
    /\ UNCHANGED <<settings_vars, req_vars, extract_vars, loads>>

\* The handler k is at the await `step`.
AtStep(k, step) ==
    /\ k \in DOMAIN cmds
    /\ cmds[k].steps # <<>>
    /\ Head(cmds[k].steps) = step

\* An except block that passes over a failed write of the administrator
\* update, as the user commands do: the handler goes on to its success reply.
Raised_passes_over(c, at) ==
    IF c.guarded /\ at = "write"
    THEN [c EXCEPT !.steps = Tail(@)]
    ELSE IF c.guarded
    THEN [c EXCEPT !.steps = <<"reply">>, !.reply = "failed", !.t = FALSE,
                   !.guarded = FALSE]
    ELSE [c EXCEPT !.steps = <<>>, !.raised = at]

\* After an exception at an await: admin_set_cmd's except block replies
\* "Failed to update setting."; elsewhere the exception leaves the handler.
Raised(c, at) ==
    IF c.guarded
    THEN [c EXCEPT !.steps = <<"reply">>, !.reply = "failed", !.t = FALSE,
                   !.guarded = FALSE]
    ELSE [c EXCEPT !.steps = <<>>, !.raised = at]

\* await update.message.reply_text(...): the text is looked up first when it
\* comes from t(), which resolves the chat's UI language through its cache.
cmd_reply(k, ok) ==
    /\ AtStep(k, "reply")
    /\ LET c == cmds[k] IN
       /\ IF c.t
          THEN /\ ui_lang' = [ui_lang EXCEPT ![c.chat_id] =
                                _get_ui_lang(c.chat_id)]
               /\ loads' = CountLoad(loads, "ui", c.chat_id,
                                     ui_lang[c.chat_id] = NoLang)
          ELSE UNCHANGED <<ui_lang, loads>>
       /\ cmds' = [cmds EXCEPT ![k] =
                     IF ok THEN [c EXCEPT !.sent = Append(@, c.reply),
                                          !.steps = Tail(@)]
                     ELSE Raised(c, "reply")]
    /\ UNCHANGED <<db_enabled, user_settings, lang_cfg, ti_cfg, threads, nops,
                   written, last_read, last_write, req_vars, extract_vars>>

\* A store write whose statement is not keyed by the chat: every chat gets
\* the written row.
StoreAfter_every_chat(call) ==
    LET after == CASE call.fn = "save_lang_settings" ->
                         save_lang_settings(call.chat_id, ThreadCfg(call))
                   [] call.fn = "save_ti_settings" ->
                         save_ti_settings(call.chat_id, ThreadCfg(call))
                   [] call.fn = "save_ui_language" ->
                         save_ui_language(call.chat_id, call.cfg.lang)
    IN  [c \in Chats |-> after[call.chat_id]]

\* The table after the store write `call` ran.
StoreAfter(call) ==
    CASE call.fn = "save_lang_settings" ->
            save_lang_settings(call.chat_id, ThreadCfg(call))
      [] call.fn = "save_ti_settings" ->
            save_ti_settings(call.chat_id, ThreadCfg(call))
      [] call.fn = "save_ui_language" ->
            save_ui_language(call.chat_id, call.cfg.lang)

\* A store write that returns without having stored anything.
cmd_write_nothing(k) ==
    /\ AtStep(k, "write")
    /\ cmds' = [cmds EXCEPT ![k] =
                  [@ EXCEPT !.write_result = "ok", !.steps = Tail(@)]]
    /\ UNCHANGED <<settings_vars, req_vars, extract_vars, loads>>

\* await asyncio.to_thread(db_save_..., chat_id, cfg): the write runs.
cmd_write(k) ==
    /\ AtStep(k, "write")
    /\ user_settings' = StoreAfter(cmds[k].call)
    /\ cmds' = [cmds EXCEPT ![k] =
                  [@ EXCEPT !.write_result = "ok", !.steps = Tail(@)]]
    /\ UNCHANGED <<db_enabled, lang_cfg, ti_cfg, ui_lang, threads, nops,
                   written, last_read, last_write, req_vars, extract_vars,
                   loads>>

\* A failing write that is not passed over: the exception leaves the handler.
cmd_write_fail_raises(k) ==
    /\ AtStep(k, "write")
    /\ db_enabled
    /\ cmds' = [cmds EXCEPT ![k] =
                  [@ EXCEPT !.write_result = "failed", !.steps = <<>>,
                            !.raised = "write"]]
    /\ UNCHANGED <<settings_vars, req_vars, extract_vars, loads>>

\* The write raises: a user command passes over it (except: pass), the
\* administrator update goes to its except block.
cmd_write_fail(k) ==
    /\ AtStep(k, "write")
    /\ db_enabled
    /\ cmds' = [cmds EXCEPT ![k] =
                  IF @.guarded
                  THEN Raised([@ EXCEPT !.write_result = "failed"], "write")
                  ELSE [@ EXCEPT !.write_result = "failed",
                                 !.steps = Tail(@)]]
    /\ UNCHANGED <<settings_vars, req_vars, extract_vars, loads>>

\* The argument texts the user commands are started with.
BoolArgs == {"off", "nope"}
UiArgs == {"Vietnamese", "fr"}
SpeechArgs == {"vi", "fr"}

NextCmd ==
    \/ \E c \in Chats, a \in BoolArgs : topics_cmd(c, a)
    \/ \E c \in Chats : intents_cmd(c, "OFF")
    \/ \E c \in Chats : ti_status_cmd(c)
    \/ \E c \in Chats, a \in UiArgs : language_cmd(c, a)
    \/ \E c \in Chats, a \in SpeechArgs : speechlang_cmd(c, a)
    \/ \E k \in DOMAIN cmds, ok \in BOOLEAN : cmd_reply(k, ok)
    \/ \E k \in DOMAIN cmds : cmd_write(k)
    \/ \E k \in DOMAIN cmds : cmd_write_fail(k)

SpecCmd == Init /\ [][NextCmd]_vars

\* The administrator commands, aimed at one chat, next to user commands sent
\* in that chat.
AdmChat == CHOOSE c \in Chats : \A d \in Chats : c <= d
AdmChatArgs == {"1", "abc"}
AdmInputs ==
    {<<"stt.language", "vi">>, <<"ti.topics", "nope">>, <<"stt.speed", "on">>,
     <<"model", "whisper-x">>}

NextAdm ==
    \/ \E u \in Users, c \in AdmChatArgs, fv \in AdmInputs :
          admin_set_cmd_start(u, c, fv[1], fv[2])
    \/ \E u \in Users : admin_get_cmd_start(u, AdmChat)
    \/ topics_cmd(AdmChat, "nope")
    \/ \E a \in SpeechArgs : speechlang_cmd(AdmChat, a)
    \/ \E a \in {NoArg, "fr"} : language_cmd(AdmChat, a)
    \/ \E k \in DOMAIN cmds, ok \in BOOLEAN : cmd_reply(k, ok)
    \/ \E k \in DOMAIN cmds : cmd_write(k)
    \/ \E k \in DOMAIN cmds : cmd_write_fail(k)

SpecAdm == Init /\ [][NextAdm]_vars

\* --------------------- the store write inside its worker thread (db.py)
\* The worker thread of handler k has its connection and evaluates the
\* statement's parameters, cfg.get(...) on the dict it was handed: from here
\* on it holds these values, whatever the event loop does to the dict before
\* the statement reaches the table.
thread_args(k) ==
    /\ AtStep(k, "write")
    /\ db_enabled
    /\ cmds[k].call.cfg = ByRef
    /\ cmds' = [cmds EXCEPT ![k].call.cfg = ThreadCfg(cmds[k].call)]
    /\ UNCHANGED <<settings_vars, req_vars, extract_vars, loads>>

\* Settings commands of the chats with their store writes at the grain of
\* the worker thread, over a store that does not fail.
NextWb ==
    \/ \E c \in Chats : topics_cmd(c, "off")
    \/ \E c \in Chats : intents_cmd(c, "OFF")
    \/ \E c \in Chats : speechlang_cmd(c, "vi")
    \/ \E k \in DOMAIN cmds, ok \in BOOLEAN : cmd_reply(k, ok)
    \/ \E k \in DOMAIN cmds : thread_args(k)
    \/ \E k \in DOMAIN cmds : cmd_write(k)

SpecWb == Init /\ [][NextWb]_vars

\* ------------------------------------ one command at a time, and restarts
\* No handler is running: every started handler has returned or was left by
\* an exception.
Idle == \A k \in DOMAIN cmds : cmds[k].steps = <<>>

\* The process is stopped and started again: bot_data is new, so the three
\* caches are empty and no handler of the old process is left; the table and
\* the store configuration stay.
restart ==
    /\ Idle
    /\ lang_cfg' = [c \in Chats |-> None]
    /\ ti_cfg' = [c \in Chats |-> None]
    /\ ui_lang' = [c \in Chats |-> NoLang]
    /\ cmds' = <<>>
    /\ loads' = NoLoads
    /\ UNCHANGED <<db_enabled, user_settings, threads, nops, written,
                   last_read, last_write, req_vars, extract_vars>>

\* The dispatcher hands the next update to its handler when the handler of
\* the one before has returned; the store does not fail.
NextSeq ==
    \/ Idle /\ \E c \in Chats : topics_cmd(c, "off")
    \/ Idle /\ \E c \in Chats : ti_status_cmd(c)
    \/ Idle /\ \E c \in Chats, a \in UiArgs : language_cmd(c, a)
    \/ Idle /\ \E c \in Chats : speechlang_cmd(c, "vi")
    \/ \E k \in DOMAIN cmds, ok \in BOOLEAN : cmd_reply(k, ok)
    \/ \E k \in DOMAIN cmds : cmd_write(k)
    \/ restart

SpecSeq == Init /\ [][NextSeq]_vars

\* ------------------------------- handle_audio when every reply is sent
\* The steps of a request that has started.
StepReqOk ==
    \/ download_ok
    \/ download_fail(TRUE)
    \/ notify_ok
    \/ \E text \in ResultTexts : primary_ok(text)
    \/ \E msg \in ProviderErrors : primary_fail(msg)
    \/ \E text \in ResultTexts : fallback_ok(text)
    \/ \E msg \in ProviderErrors : fallback_fail(msg)
    \/ reply_empty(TRUE)
    \/ reply_document(TRUE)
    \/ except_branch(TRUE)

NextReqOk ==
    \/ \E c \in Chats : start_request(c)
    \/ StepReqOk

\* Every await of the handler returns or raises (the download, the provider
\* call and the replies are network calls with time-outs), so a started
\* request always takes its next step.
SpecReqOk == InitReq /\ [][NextReqOk]_vars /\ WF_vars(StepReqOk)

\* ------------------------ analyze_cmd (bot.py, text_intelligence.py)
\* The /analyze texts the model sends: none, or some text.
AnalyzeArgs == {NoArg, "text"}

\* kwargs of AnalyzeOptions: the known keys of the options whose value is
\* neither None nor "" (the settings hold no None; a boolean is neither).
AnalyzeKwargs(options) ==
    [k \in {key \in DOMAIN options \cap
                    {"language", "summarize", "topics", "intents", "sentiment"} :
               key \in {"language", "summarize"} => options[key] # ""}
        |-> options[k]]

\* /analyze <text>, up to its first await.  req.kind = "raised" marks a
\* request whose handler was left by an exception.
analyze_cmd(chat_id, content) ==
    /\ req.pc \in {"idle", "done"}
    /\ nreqs < MaxReqs
    /\ nreqs' = nreqs + 1
    /\ IF ~_DG_V3_AVAILABLE
       THEN /\ req' = [NoReq EXCEPT !.pc = "an_unavailable", !.chat_id = chat_id]
            /\ UNCHANGED <<ti_cfg, loads>>
       ELSE LET cfg == _get_ti_cfg(chat_id) IN
            /\ ti_cfg' = [ti_cfg EXCEPT ![chat_id] = cfg]
            /\ loads' = CountLoad(loads, "analysis", chat_id,
                                  ti_cfg[chat_id] = None)
            /\ req' = IF content = NoArg
                      THEN [NoReq EXCEPT !.pc = "an_usage", !.chat_id = chat_id]
                      ELSE [NoReq EXCEPT !.pc = "an_notify", !.chat_id = chat_id,
                                         !.cfg = cfg]
    /\ UNCHANGED <<db_enabled, user_settings, lang_cfg, ui_lang, threads, nops,
                   written, last_read, last_write, _DG_V3_AVAILABLE,
                   extract_vars, cmds>>

\* The replies of analyze_cmd by position: the text sent, whether it is
\* looked up with t(), and where the handler goes when it was sent.
AnReplies ==
    [an_unavailable |-> [key |-> "analyze_requires_upgrade", t |-> TRUE,
                         next |-> "done"],
     an_usage |-> [key |-> "analyze_usage", t |-> FALSE, next |-> "done"],
     an_notify |-> [key |-> "analyzing_text", t |-> TRUE, next |-> "an_call"],
     an_error |-> [key |-> "analyze_error", t |-> FALSE, next |-> "done"],
     an_document |-> [key |-> "analysis_document", t |-> FALSE,
                      next |-> "done"],
     an_text |-> [key |-> "analysis_text", t |-> FALSE, next |-> "done"]]

\* await update.message.reply_text / reply_document of analyze_cmd: sent, or
\* raising.  Only the result document is inside a try block, whose except
\* branch sends the result as text; elsewhere the exception leaves the
\* handler.
an_reply(reply_ok) ==
    /\ req.pc \in DOMAIN AnReplies
    /\ LET r == AnReplies[req.pc] IN
       /\ IF r.t THEN T(req.chat_id) ELSE UNCHANGED <<ui_lang, loads>>
       /\ req' = IF reply_ok THEN Sent([req EXCEPT !.pc = r.next], r.key)
                 ELSE IF req.pc = "an_document"
                 THEN [req EXCEPT !.pc = "an_text"]
                 ELSE [req EXCEPT !.pc = "done", !.kind = "raised"]
    /\ UNCHANGED <<db_enabled, user_settings, lang_cfg, ti_cfg, threads, nops,
                   written, last_read, last_write, nreqs, _DG_V3_AVAILABLE,
                   extract_vars, cmds>>

\* An analyze_text whose provider failure is raised out of the handler.
analyze_text_raises(result_ok) ==
    /\ req.pc = "an_call"
    /\ req' = IF ~_DG_V3_AVAILABLE THEN [req EXCEPT !.pc = "an_error"]
              ELSE [req EXCEPT
                      !.calls = Append(@, [options |-> AnalyzeKwargs(req.cfg),
                                           ok |-> result_ok]),
                      !.pc = IF result_ok THEN "an_document" ELSE "done",
                      !.kind = IF result_ok THEN "" ELSE "raised"]
    /\ UNCHANGED <<settings_vars, nreqs, _DG_V3_AVAILABLE, extract_vars,
                   cmd_vars>>

\* An analyze_text that tries the provider a second time after a failure.
analyze_text_retries(result_ok) ==
    /\ req.pc = "an_call"
    /\ req' = IF ~_DG_V3_AVAILABLE THEN [req EXCEPT !.pc = "an_error"]
              ELSE [req EXCEPT
                      !.calls = Append(@, [options |-> AnalyzeKwargs(req.cfg),
                                           ok |-> result_ok]),
                      !.pc = IF result_ok THEN "an_document"
                             ELSE IF req.calls = <<>> THEN "an_call"
                             ELSE "an_error"]
    /\ UNCHANGED <<settings_vars, nreqs, _DG_V3_AVAILABLE, extract_vars,
                   cmd_vars>>

\* await asyncio.to_thread(analyzer.analyze_text, content, options): one
\* provider call whose exception is caught and returned as ok = False.
analyze_text(result_ok) ==
    /\ req.pc = "an_call"
    /\ req' = IF ~_DG_V3_AVAILABLE THEN [req EXCEPT !.pc = "an_error"]
              ELSE [req EXCEPT
                      !.calls = Append(@, [options |-> AnalyzeKwargs(req.cfg),
                                           ok |-> result_ok]),
                      !.pc = IF result_ok THEN "an_document" ELSE "an_error"]
    /\ UNCHANGED <<settings_vars, nreqs, _DG_V3_AVAILABLE, extract_vars,
                   cmd_vars>>

\* ------------------- requests and settings commands, one handler at a time
\* A process start with or without the analysis SDK.
InitAll ==
    /\ db_enabled \in BOOLEAN
    /\ user_settings = [c \in Chats |-> None]
    /\ lang_cfg = [c \in Chats |-> None]
    /\ ti_cfg = [c \in Chats |-> None]
    /\ ui_lang = [c \in Chats |-> NoLang]
    /\ threads = {}
    /\ nops = 0
    /\ written = {}
    /\ last_read = None
    /\ last_write = None
    /\ req = NoReq
    /\ nreqs = 0
    /\ _DG_V3_AVAILABLE \in BOOLEAN
    /\ response = None
    /\ extracted = None
    /\ cmds = <<>>
    /\ loads = NoLoads

\* No handler is running, of a command or of a request.
Quiet == Idle /\ req.pc \in {"idle", "done"}

\* The provider outcomes the requests are run with here.
SomeTexts == {<<>>, <<"a">>}
SomeErrors == {<<"Timed out">>, <<"DG: 400", "language=vi">>}

NextAll ==
    \/ Quiet /\ topics_cmd(AdmChat, "off")
    \/ Quiet /\ speechlang_cmd(AdmChat, "vi")
    \/ Quiet /\ language_cmd(AdmChat, "Vietnamese")
    \/ \E k \in DOMAIN cmds : cmd_reply(k, TRUE)
    \/ \E k \in DOMAIN cmds : cmd_write(k)
    \/ \E k \in DOMAIN cmds : cmd_write_fail(k)
    \/ Quiet /\ \E c \in Chats : start_request(c)
    \/ download_ok
    \/ \E ok \in BOOLEAN : download_fail(ok)
    \/ notify_ok
    \/ notify_fail
    \/ \E text \in SomeTexts : primary_ok(text)
    \/ primary_fail(<<"Timed out">>)
    \/ fallback_ok(<<"a">>)
    \/ \E msg \in SomeErrors : fallback_fail(msg)
    \/ \E ok \in BOOLEAN : reply_empty(ok)
    \/ \E ok \in BOOLEAN : reply_document(ok)
    \/ \E ok \in BOOLEAN : except_branch(ok)
    \/ Quiet /\ \E c \in Chats, a \in AnalyzeArgs : analyze_cmd(c, a)
    \/ \E ok \in BOOLEAN : an_reply(ok)
    \/ \E ok \in BOOLEAN : analyze_text(ok)

SpecAll == InitAll /\ [][NextAll]_vars

\* ------------------------------------------ store reads that raise (db.py)
\* /anstatus on a cache miss whose store read raises (no connection, a
\* failing select): _get_ti_cfg has no try block and neither has ti_status_cmd,
\* so the exception leaves the handler before its reply; nothing is cached.
ti_status_cmd_read_fail(chat_id) ==
    /\ db_enabled
    /\ ti_cfg[chat_id] = None
    /\ Started([NewCmd("ti_status_cmd", 0, chat_id, NoArg) EXCEPT
                  !.group = "analysis", !.raised = "read"])
    /\ UNCHANGED <<settings_vars, req_vars, extract_vars, loads>>

\* An audio message on a cache miss whose store read raises: _get_lang_cfg is
\* called before handle_audio's try block, so the exception leaves the
\* handler with nothing sent.
start_request_read_fail(chat_id) ==
    /\ req.pc \in {"idle", "done"}
    /\ nreqs < MaxReqs
    /\ db_enabled
    /\ lang_cfg[chat_id] = None
    /\ nreqs' = nreqs + 1
    /\ req' = [NoReq EXCEPT !.pc = "done", !.chat_id = chat_id,
                            !.kind = "raised"]
    /\ UNCHANGED <<settings_vars, _DG_V3_AVAILABLE, extract_vars, cmd_vars>>

\* Commands and requests whose replies, store writes and provider calls all
\* succeed, with store reads that succeed or raise.
NextRd ==
    \/ \E c \in Chats : ti_status_cmd(c)
    \/ \E c \in Chats : ti_status_cmd_read_fail(c)
    \/ \E c \in Chats : topics_cmd(c, "off")
    \/ \E k \in DOMAIN cmds : cmd_reply(k, TRUE)
    \/ \E k \in DOMAIN cmds : cmd_write(k)
    \/ \E c \in Chats : start_request(c)
    \/ \E c \in Chats : start_request_read_fail(c)
    \/ download_ok
    \/ notify_ok
    \/ \E text \in SomeTexts : primary_ok(text)
    \/ reply_empty(TRUE)
    \/ reply_document(TRUE)

SpecRd == Init /\ [][NextRd]_vars

\* ------------------ the speech language commands and a request (bot.py)
\* The arguments the speech language commands of one chat are run with here.
LangWords == {"AUTO", "fr"}
SpeechLangWords == {"auto", "vi"}
DetectWords == {"on", "OFF"}

\* No handler is running and no store write is under way.
Settled == Quiet /\ threads = {}

NextLang ==
    \/ Settled /\ \E a \in LangWords : lang_cmd(AdmChat, a)
    \/ Settled /\ \E a \in DetectWords : detect_cmd(AdmChat, a)
    \/ Settled /\ \E a \in SpeechLangWords : speechlang_cmd(AdmChat, a)
    \/ \E th \in threads : run_thread(th)
    \/ \E th \in threads : fail_thread(th)
    \/ \E k \in DOMAIN cmds : cmd_reply(k, TRUE)
    \/ \E k \in DOMAIN cmds : cmd_write(k)
    \/ Settled /\ start_request(AdmChat)
    \/ download_ok
    \/ notify_ok
    \/ primary_ok(<<"a">>)
    \/ reply_document(TRUE)

SpecLang == Init /\ [][NextLang]_vars

\* ================================================================ claims
\* Store rows present in the table.
Rows(table) == {c \in Chats : table[c] # None}

\* C1: a speech-group store write for a chat that already has a row leaves
\* the row's analysis fields as they were, and an analysis-group store write
\* leaves its speech fields as they were, whatever other writes are pending.
C1_CrossGroupPreserved ==
    [][\A th \in threads :
          (run_thread(th) /\ user_settings[th.chat_id] # None) =>
             IF th.fn = "save_lang_settings"
             THEN AnalysisOf(user_settings'[th.chat_id]) =
                     AnalysisOf(user_settings[th.chat_id])
             ELSE SpeechOf(user_settings'[th.chat_id]) =
                     SpeechOf(user_settings[th.chat_id])]_vars

\* A speech write has just updated an existing row whose analysis fields are
\* not the defaults, while an analysis write for the same chat is pending.
C1_Witness ==
    /\ last_write # None
    /\ last_write.fn = "save_lang_settings"
    /\ last_write.existed
    /\ user_settings[last_write.chat_id].summarize = "off"
    /\ user_settings[last_write.chat_id].language = "vi"
    /\ \E th \in threads :
          th.fn = "save_ti_settings" /\ th.chat_id = last_write.chat_id

\* C2: a chat that was never written has no row, its cached speech settings
\* (if loaded) and every read of them, through the cache or from the store,
\* are the default {en-US, false, ""}; and a read leaves the number of rows
\* as it was.
C2_NeverWrittenReadsDefault ==
    [][/\ \A c \in Chats \ written' :
             /\ user_settings'[c] = None
             /\ lang_cfg'[c] # None => lang_cfg'[c] = _LANG_DEFAULT
             /\ (last_read' # None /\ last_read'.chat_id = c) =>
                   last_read'.value = _LANG_DEFAULT
       /\ ((\E c \in Chats : status_cmd(c))
              \/ (\E u \in Users, c \in Chats : admin_get_cmd(u, c))) =>
             Cardinality(Rows(user_settings')) = Cardinality(Rows(user_settings))
      ]_vars

\* A never-written chat was read through the cache of a process whose store
\* is configured and holds a row of another chat: it read as the default.
C2_Witness ==
    /\ db_enabled
    /\ last_read # None
    /\ last_read.via = "cache"
    /\ last_read.chat_id \notin written
    /\ lang_cfg[last_read.chat_id] = _LANG_DEFAULT
    /\ Rows(user_settings) # {}

\* The messages a request has sent.
SentKeys == {req.sent[i] : i \in DOMAIN req.sent}

\* C3: once the primary provider call of a request has failed, the fallback
\* call is the next thing the request does, it is the only further call, and
\* the options passed to it are exactly {detect_language: True}.
C3_FallbackOnceMinimal ==
    req.primary_error # <<>> =>
       \/ req.pc = "fallback" /\ Len(req.calls) = 1
       \/ /\ req.pc # "fallback"
          /\ Len(req.calls) = 2
          /\ req.calls[2].options = [detect_language |-> TRUE]

\* A finished request whose primary call, made with a language and a model,
\* failed and whose fallback call succeeded.
C3_Witness ==
    /\ req.pc = "done"
    /\ req.primary_error # <<>>
    /\ req.calls[1].options = [language |-> "vi", model |-> "whisper-x"]
    /\ req.calls[2].ok
    /\ "document" \in SentKeys

\* C4: when both provider calls failed and the failure text of the primary
\* call matched the Vietnamese-language marker, the request ends with the
\* tailored (language-model-incompatible) failure kind.
C4_PrimaryMarkerDecidesKind ==
    (/\ req.pc = "done"
     /\ Len(req.calls) = 2
     /\ ~req.calls[1].ok
     /\ ~req.calls[2].ok
     /\ IsViMarker(req.primary_error)) => req.kind = "vi_400_help"

\* C5: a request makes at most two provider calls; the first is made from
\* the built options, the second only right after the first failed; a
\* successful call and a failed fallback call are followed by no call.
C5_AtMostOneFallback ==
    [][/\ Len(req'.calls) <= 2
       /\ (nreqs' = nreqs /\ req'.calls # req.calls) =>
             \/ /\ req.pc = "primary"
                /\ req.calls = <<>>
                /\ Len(req'.calls) = 1
                /\ req'.pc \in {"reply_empty", "reply_document", "fallback"}
                /\ req'.pc = "fallback" <=> ~req'.calls[1].ok
             \/ /\ req.pc = "fallback"
                /\ Len(req.calls) = 1
                /\ ~req.calls[1].ok
                /\ Len(req'.calls) = 2
                /\ req'.calls[1] = req.calls[1]
                /\ req'.pc \in {"reply_empty", "reply_document", "except"}
                /\ req'.pc = "except" <=> ~req'.calls[2].ok
       /\ (nreqs' = nreqs /\ req'.pc # req.pc /\ req'.pc = "primary") =>
             req.pc = "notify"
       /\ (nreqs' = nreqs /\ req'.pc # req.pc /\ req'.pc = "fallback") =>
             req.pc = "primary"
      ]_vars

\* A finished request whose primary and fallback call both failed.
C5_Witness ==
    /\ req.pc = "done"
    /\ Len(req.calls) = 2
    /\ ~req.calls[1].ok
    /\ ~req.calls[2].ok

\* C6: with detect_language false and language vi or vi-VN the options of the
\* primary call carry model nova-2 when the settings' model is empty and the
\* settings' model otherwise; a non-empty model is always passed unchanged.
C6_VietnameseDefaultModel ==
    req.calls # <<>> =>
       LET cfg == req.cfg
           opts == req.calls[1].options
       IN  /\ (~cfg.detect_language /\ cfg.language \in {"vi", "vi-VN"}) =>
                 /\ "model" \in DOMAIN opts
                 /\ opts.model = IF cfg.model = "" THEN "nova-2" ELSE cfg.model
           /\ cfg.model # "" =>
                 ("model" \in DOMAIN opts /\ opts.model = cfg.model)

\* A primary call was made for settings {vi-VN, no detection, no model}: its
\* options are the language and the nova-2 default.
C6_Witness ==
    /\ req.calls # <<>>
    /\ req.cfg = [language |-> "vi-VN", detect_language |-> FALSE, model |-> ""]
    /\ req.calls[1].options = [language |-> "vi-VN", model |-> "nova-2"]

\* C7: with detect_language true the options of the primary call carry no
\* language key, and with an empty model they are exactly
\* {detect_language: True}.
C7_AutoDetectOptions ==
    (req.calls # <<>> /\ req.cfg.detect_language) =>
       LET opts == req.calls[1].options
       IN  /\ "language" \notin DOMAIN opts
           /\ req.cfg.model = "" => opts = [detect_language |-> TRUE]

\* A primary call was made for settings {vi, detection on, no model}.
C7_Witness ==
    /\ req.calls # <<>>
    /\ req.cfg = [language |-> "vi", detect_language |-> TRUE, model |-> ""]
    /\ req.calls[1].options = [detect_language |-> TRUE]

\* The extraction precedence as the claim states it: the first alternative's
\* transcript when present and non-empty, else the joined utterances, else
\* the empty string; trimmed.
PrecedenceText(resp) ==
    LET channels == resp.channels
        alts == IF channels # <<>> THEN channels[1].alternatives ELSE <<>>
        utterances == resp.utterances
    IN  IF alts # <<>> /\ "transcript" \in DOMAIN alts[1]
           /\ alts[1].transcript # <<>>
        THEN Strip(alts[1].transcript)
        ELSE IF utterances # <<>>
        THEN Strip(Join(UtteranceTexts(utterances)))
        ELSE <<>>

\* C8: the extracted text follows the precedence first alternative's
\* non-empty transcript, else utterances joined with newlines, else empty.
C8_ExtractionPrecedence ==
    extracted # None => extracted.text = PrecedenceText(response)

\* C9: a request whose last provider call succeeded with an empty text ends
\* without a further provider call, without a result document and without a
\* transcription-failure message.
C9_EmptyIsNotAFailure ==
    (/\ req.pc = "done"
     /\ req.calls # <<>>
     /\ req.calls[Len(req.calls)].ok
     /\ req.text = <<>>) =>
       /\ Len(req.calls) = IF req.calls[1].ok THEN 1 ELSE 2
       /\ "document" \notin SentKeys
       /\ "vi_400_help" \notin SentKeys
       /\ "transcribe_failed" \notin SentKeys

\* C10: the cached and the stored analysis.summarize of every chat is off or
\* v2.
C10_SummarizeIsOffOrV2 ==
    \A c \in Chats :
       /\ ti_cfg[c] # None => ti_cfg[c].summarize \in {"off", "v2"}
       /\ user_settings[c] # None => user_settings[c].summarize \in {"off", "v2"}

\* C11: every boolean settings field takes each of on/true/yes/1, in any
\* letter case, as true and each of off/false/no/0 as false.  Here for
\* speech.detect_language on the user path: a /detect command whose argument
\* is one of these words sets the cached detect_language to its value.
C11_BooleanWordsAccepted ==
    [][\A c \in Chats, a \in DetectArgs :
          (detect_cmd(c, a) /\ _parse_bool(a) # None) =>
             /\ lang_cfg'[c] # None
             /\ lang_cfg'[c].detect_language = _parse_bool(a).value]_vars

\* The handlers that took a step: started by it, or moved on by it.
Stepped == {k \in DOMAIN cmds' : k \notin DOMAIN cmds \/ cmds'[k] # cmds[k]}

\* The awaits of all handlers that are store writes still to be made.
PendingWrites(hs) ==
    {k \in DOMAIN hs : \E i \in DOMAIN hs[k].steps : hs[k].steps[i] = "write"}

\* C12: a settings command rejected by validation changes no settings value
\* and issues no store write: over every step of a rejected handler the table
\* is unchanged, no write is pending for it, and the speech, analysis and UI
\* language settings every chat reads (cached, or loaded on a miss) are the
\* same after the step as before it.
C12_RejectedChangesNothing ==
    [][(\E k \in Stepped : ~cmds'[k].accepted) =>
          /\ user_settings' = user_settings
          /\ threads' = threads
          /\ PendingWrites(cmds') = PendingWrites(cmds)
          /\ \A k \in Stepped : cmds'[k].call = None
          /\ \A c \in Chats :
                /\ _get_lang_cfg(c)' = _get_lang_cfg(c)
                /\ _get_ti_cfg(c)' = _get_ti_cfg(c)
                /\ _get_ui_lang(c)' = _get_ui_lang(c)]_vars

\* The administrator's update with a bad boolean was refused after it had
\* read the stored settings, and a /speechlang with an unknown language name
\* was refused after it had loaded the chat's speech settings into the cache.
C12_Witness ==
    /\ \E k \in DOMAIN cmds :
          /\ cmds[k].name = "admin_set_cmd"
          /\ cmds[k].uid = ADMIN_USER_ID
          /\ cmds[k].arg = <<"1", "ti.topics", "nope">>
          /\ ~cmds[k].accepted
          /\ cmds[k].reads = 1
          /\ cmds[k].sent = <<"refused">>
    /\ \E k \in DOMAIN cmds :
          /\ cmds[k].name = "speechlang_cmd"
          /\ cmds[k].arg = "fr"
          /\ ~cmds[k].accepted
          /\ cmds[k].sent = <<"speechlang_usage">>
          /\ lang_cfg[cmds[k].chat_id] # None

\* The handlers of administrator commands started by another caller.
ForeignAdmin(hs) ==
    {k \in DOMAIN hs :
        /\ hs[k].name \in {"admin_set_cmd", "admin_get_cmd"}
        /\ hs[k].uid # ADMIN_USER_ID}

\* C13: an administrator command of a caller who is not the administrator is
\* refused before any store read or write: its handler reads nothing, hands
\* no write to a worker thread and answers only "Not allowed.", and its steps
\* leave the table and the three caches of every chat as they were.
C13_ForeignCallerRefused ==
    [][/\ \A k \in ForeignAdmin(cmds') :
             /\ ~cmds'[k].accepted
             /\ cmds'[k].call = None
             /\ cmds'[k].reads = 0
             /\ cmds'[k].read = None
             /\ \A i \in DOMAIN cmds'[k].sent : cmds'[k].sent[i] = "not_allowed"
             /\ \A i \in DOMAIN cmds'[k].steps : cmds'[k].steps[i] = "reply"
       /\ (Stepped \cap ForeignAdmin(cmds') # {}) =>
             UNCHANGED <<user_settings, lang_cfg, ti_cfg, ui_lang, threads,
                         loads>>]_vars

\* Caller 42 sent the well-formed `/adminset 1 stt.language vi` and was told
\* "Not allowed."; the administrator sent the same and the write ran.
C13_Witness ==
    /\ db_enabled
    /\ \E k \in DOMAIN cmds :
          /\ cmds[k].name = "admin_set_cmd"
          /\ cmds[k].uid # ADMIN_USER_ID
          /\ cmds[k].arg = <<"1", "stt.language", "vi">>
          /\ cmds[k].sent = <<"not_allowed">>
    /\ \E k \in DOMAIN cmds :
          /\ cmds[k].name = "admin_set_cmd"
          /\ cmds[k].uid = ADMIN_USER_ID
          /\ cmds[k].arg = <<"1", "stt.language", "vi">>
          /\ cmds[k].write_result = "ok"
    /\ user_settings[1] # None
    /\ user_settings[1].language = "vi"

\* The value of `key` a read of the chat's group gets: the cached group, or
\* on a miss the group loaded from the store.
ReadsAs(group, chat_id, key) ==
    IF group = "speech" THEN _get_lang_cfg(chat_id)[key]
    ELSE _get_ti_cfg(chat_id)[key]

\* C14: after a successful /adminset of a field of chat c, with no command
\* started since, the next read of c's group through the settings cache (the
\* one /status, /anstatus and a transcription request make) gets the new
\* value.
C14_AdminUpdateIsRead ==
    \A k \in DOMAIN cmds :
       (/\ k = Len(cmds)
        /\ cmds[k].name = "admin_set_cmd"
        /\ cmds[k].accepted
        /\ cmds[k].steps = <<>>
        /\ cmds[k].sent = <<"updated">>) =>
          ReadsAs(cmds[k].group, cmds[k].chat_id, cmds[k].key) =
             cmds[k].value.value

\* The cached value of a field of a chat's group.
CachedValue(group, chat_id, key) ==
    CASE group = "speech" -> lang_cfg[chat_id][key]
      [] group = "analysis" -> ti_cfg[chat_id][key]
      [] group = "ui" -> ui_lang[chat_id]

\* Handler j set the field handler k set (speechlang_cmd sets language and
\* detect_language together).
SetsFieldOf(j, k) ==
    /\ cmds[j].accepted
    /\ cmds[j].call # None
    /\ cmds[j].chat_id = cmds[k].chat_id
    /\ cmds[j].group = cmds[k].group
    /\ (cmds[j].key = cmds[k].key \/ cmds[j].name = "speechlang_cmd")

\* Handler j read, through the cache, the group handler k set, with no
\* handler started between them that set the same field.
ReadsAfter(j, k) ==
    /\ j > k
    /\ cmds[j].read # None
    /\ cmds[j].chat_id = cmds[k].chat_id
    /\ cmds[j].group = cmds[k].group
    /\ ~\E i \in DOMAIN cmds : k < i /\ i < j /\ SetsFieldOf(i, k)

\* C15: a user settings command whose store write failed is not ended by the
\* failure: it sends (or has sent) its success reply, the cache holds the
\* value it set until a later command sets the field again, and every later
\* read of the chat's group gets that value.
C15_WriteFailureSwallowed ==
    \A k \in DOMAIN cmds :
       (cmds[k].accepted /\ cmds[k].write_result = "failed") =>
          /\ cmds[k].raised # "write"
          /\ (cmds[k].steps = <<>> /\ cmds[k].raised = "") =>
                \E i \in DOMAIN cmds[k].sent : cmds[k].sent[i] = cmds[k].reply
          /\ (~\E j \in DOMAIN cmds : j > k /\ SetsFieldOf(j, k)) =>
                CachedValue(cmds[k].group, cmds[k].chat_id, cmds[k].key) =
                   cmds[k].value.value
          /\ \A j \in DOMAIN cmds :
                ReadsAfter(j, k) =>
                   cmds[j].read[cmds[k].key] = cmds[k].value.value

\* /topics off lost its store write and sent its reply; a later /anstatus of
\* the chat read topics off, over a table without a row of the chat.
C15_Witness ==
    /\ Len(cmds) = 2
    /\ cmds[1].name = "topics_cmd"
    /\ cmds[1].write_result = "failed"
    /\ cmds[1].steps = <<>>
    /\ cmds[1].sent = <<"set">>
    /\ cmds[2].name = "ti_status_cmd"
    /\ cmds[2].chat_id = cmds[1].chat_id
    /\ cmds[2].sent = <<"settings">>
    /\ cmds[2].read.topics = FALSE
    /\ user_settings[cmds[1].chat_id] = None

\* C16: with no store configured every store read gives the built-in
\* defaults, every store write leaves the (empty) table as it is and none of
\* them raises; a settings command still sends its reply and the value it
\* set is in the cache, and a chat nobody set reads as the defaults.
C16_UnconfiguredStore ==
    ~db_enabled =>
       /\ \A c \in Chats :
             /\ user_settings[c] = None
             /\ get_lang_settings(c) = _LANG_DEFAULT
             /\ get_ti_settings(c) = _TI_DEFAULT
             /\ get_ui_language(c) = "en"
       /\ \A k \in DOMAIN cmds :
             /\ cmds[k].write_result # "failed"
             /\ cmds[k].raised # "write"
             /\ (cmds[k].accepted /\ cmds[k].steps = <<>> /\ cmds[k].raised = "")
                   => cmds[k].sent = <<cmds[k].reply>>
             /\ (/\ cmds[k].accepted
                 /\ cmds[k].call # None
                 /\ ~\E j \in DOMAIN cmds : j > k /\ SetsFieldOf(j, k)) =>
                   CachedValue(cmds[k].group, cmds[k].chat_id, cmds[k].key) =
                      cmds[k].value.value
             /\ (/\ cmds[k].read # None
                 /\ ~\E j \in DOMAIN cmds :
                       /\ j < k
                       /\ cmds[j].call # None
                       /\ cmds[j].chat_id = cmds[k].chat_id
                       /\ cmds[j].group = cmds[k].group) =>
                   cmds[k].read = _TI_DEFAULT

\* Without a store, /topics off and /language Vietnamese of one chat both
\* completed with their replies after their writes returned; the cache holds
\* topics off and vi, the table is empty.
C16_Witness ==
    /\ ~db_enabled
    /\ Len(cmds) = 2
    /\ cmds[1].name = "topics_cmd"
    /\ cmds[2].name = "language_cmd"
    /\ cmds[2].chat_id = cmds[1].chat_id
    /\ \A k \in DOMAIN cmds :
          /\ cmds[k].steps = <<>>
          /\ cmds[k].write_result = "ok"
          /\ cmds[k].sent = <<cmds[k].reply>>
    /\ ti_cfg[cmds[1].chat_id].topics = FALSE
    /\ ui_lang[cmds[1].chat_id] = "vi"
    /\ user_settings = [c \in Chats |-> None]

\* The row of defaults: what the column defaults and the literals of the
\* three insert statements give a new row.
DefaultRow ==
    [language |-> "en-US", detect_language |-> FALSE, model |-> "",
     ti_language |-> "en", summarize |-> "v2", topics |-> TRUE,
     intents |-> TRUE, sentiment |-> TRUE, ui_language |-> "en"]

\* C17: a store write for a chat without a row creates exactly one row, that
\* of the chat, in which the written group holds the written values (the
\* cached group of a user command, the language of /language) and every
\* other field its default; rows of other chats are untouched, and a write
\* for a chat with a row creates none.  This also covers first writes of
\* different groups of one chat whose handlers are both in flight.
C17_FirstWriteCreatesDefaultRow ==
    [][\A k \in DOMAIN cmds :
          (cmd_write(k) /\ db_enabled) =>
             LET call == cmds[k].call
                 c == call.chat_id
                 row == user_settings'[c]
             IN  /\ \A d \in Chats \ {c} : user_settings'[d] = user_settings[d]
                 /\ row # None
                 /\ Rows(user_settings') = Rows(user_settings) \cup {c}
                 /\ user_settings[c] = None =>
                       CASE call.fn = "save_lang_settings" ->
                               /\ SpeechOf(row) = lang_cfg[c]
                               /\ AnalysisOf(row) = AnalysisOf(DefaultRow)
                               /\ row.ui_language = "en"
                         [] call.fn = "save_ti_settings" ->
                               /\ AnalysisOf(row) = ti_cfg[c]
                               /\ SpeechOf(row) = SpeechOf(DefaultRow)
                               /\ row.ui_language = "en"
                         [] call.fn = "save_ui_language" ->
                               /\ row.ui_language = call.cfg.lang
                               /\ SpeechOf(row) = SpeechOf(DefaultRow)
                               /\ AnalysisOf(row) = AnalysisOf(DefaultRow)]_vars

\* /topics off and /language Vietnamese of one chat are both in flight; the
\* UI-language write ran first and created the row: vi with the defaults,
\* topics still on, while the analysis write is still to come.
C17_Witness ==
    /\ db_enabled
    /\ Len(cmds) = 2
    /\ cmds[1].name = "topics_cmd"
    /\ cmds[2].name = "language_cmd"
    /\ cmds[2].chat_id = cmds[1].chat_id
    /\ cmds[1].steps = <<"write">>
    /\ cmds[2].write_result = "ok"
    /\ ti_cfg[cmds[1].chat_id].topics = FALSE
    /\ user_settings[cmds[1].chat_id] = [DefaultRow EXCEPT !.ui_language = "vi"]
    /\ Cardinality(Rows(user_settings)) = 1

\* C18: /language leaves the cached speech and analysis groups as they are,
\* and its store write for a chat that has a row changes only the row's
\* ui_language: the stored speech and analysis fields, the caches and the
\* rows of other chats are unchanged.
C18_UiWriteChangesOnlyUiLanguage ==
    [][/\ \A c \in Chats, a \in UiArgs :
             language_cmd(c, a) => UNCHANGED <<lang_cfg, ti_cfg, user_settings>>
       /\ \A k \in DOMAIN cmds :
             (/\ cmd_write(k)
              /\ cmds[k].call.fn = "save_ui_language"
              /\ user_settings[cmds[k].chat_id] # None) =>
                LET c == cmds[k].chat_id IN
                /\ SpeechOf(user_settings'[c]) = SpeechOf(user_settings[c])
                /\ AnalysisOf(user_settings'[c]) = AnalysisOf(user_settings[c])
                /\ user_settings'[c].ui_language = cmds[k].call.cfg.lang
                /\ \A d \in Chats \ {c} : user_settings'[d] = user_settings[d]
                /\ UNCHANGED <<lang_cfg, ti_cfg>>]_vars

\* /topics off of a chat was stored, then /language Vietnamese: the row now
\* holds vi and still topics off.
C18_Witness ==
    /\ Len(cmds) = 2
    /\ cmds[1].name = "topics_cmd"
    /\ cmds[1].write_result = "ok"
    /\ cmds[2].name = "language_cmd"
    /\ cmds[2].chat_id = cmds[1].chat_id
    /\ cmds[2].write_result = "ok"
    /\ user_settings[cmds[1].chat_id] =
          [DefaultRow EXCEPT !.topics = FALSE, !.ui_language = "vi"]
    /\ ti_cfg[cmds[1].chat_id].topics = FALSE

\* The chat's group is in its cache.
Present(group, chat_id) ==
    CASE group = "speech" -> lang_cfg[chat_id] # None
      [] group = "analysis" -> ti_cfg[chat_id] # None
      [] group = "ui" -> ui_lang[chat_id] # NoLang

C20_NoLostCacheUpdate ==
    \A k \in DOMAIN cmds, j \in DOMAIN cmds :
       (/\ k < j
        /\ cmds[k].accepted /\ cmds[k].call # None
        /\ cmds[j].accepted /\ cmds[j].call # None
        /\ cmds[k].chat_id = cmds[j].chat_id
        /\ cmds[k].group = cmds[j].group
        /\ cmds[k].key # cmds[j].key) =>
          /\ (~\E i \in DOMAIN cmds : i > k /\ SetsFieldOf(i, k)) =>
                CachedValue(cmds[k].group, cmds[k].chat_id, cmds[k].key) =
                   cmds[k].value.value
          /\ (~\E i \in DOMAIN cmds : i > j /\ SetsFieldOf(i, j)) =>
                CachedValue(cmds[j].group, cmds[j].chat_id, cmds[j].key) =
                   cmds[j].value.value

\* /topics off has replied and waits for its store write; /intents off of
\* the same chat started after it and ran to its end meanwhile.  The cached
\* analysis group holds topics off and intents off.
C20_Witness ==
    /\ db_enabled
    /\ Len(cmds) = 2
    /\ cmds[1].name = "topics_cmd"
    /\ cmds[1].sent = <<"set">>
    /\ cmds[1].steps = <<"write">>
    /\ cmds[2].name = "intents_cmd"
    /\ cmds[2].chat_id = cmds[1].chat_id
    /\ cmds[2].steps = <<>>
    /\ cmds[2].write_result = "ok"
    /\ ti_cfg[cmds[1].chat_id] =
          [_TI_DEFAULT EXCEPT !.topics = FALSE, !.intents = FALSE]

C22_OnlyTheSetFieldIsStored ==
    [][\A th \in threads :
          (/\ run_thread(th)
           /\ th.fn = "save_ti_settings"
           /\ th.cfg = ByRef
           /\ user_settings[th.chat_id] # None) =>
             /\ user_settings'[th.chat_id].ti_language =
                   user_settings[th.chat_id].ti_language
             /\ user_settings'[th.chat_id].topics =
                   user_settings[th.chat_id].topics
             /\ user_settings'[th.chat_id].intents =
                   user_settings[th.chat_id].intents
             /\ user_settings'[th.chat_id].sentiment =
                   user_settings[th.chat_id].sentiment]_vars

\* The store function a user command of a group hands to its worker thread.
SaveFn(group) ==
    CASE group = "speech" -> "save_lang_settings"
      [] group = "analysis" -> "save_ti_settings"
      [] group = "ui" -> "save_ui_language"

\* The keys of the fields the user commands set.
FieldKeys ==
    {"language", "detect_language", "model", "summarize", "topics", "intents",
     "sentiment", "ui_language"}

\* C23: a user settings command that passed validation has mutated the cache
\* and has the store write of the group it changed as one of its awaits; and
\* with a configured store and commands handled one after the other, none of
\* them left by an exception, a restart changes nothing a chat reads: the
\* first read of its speech, analysis and UI language settings after the
\* restart gets what the last commands before it had set.
C23_WriteThroughSurvivesRestart ==
    [][/\ \A k \in DOMAIN cmds' :
             (cmds'[k].accepted /\ cmds'[k].name # "ti_status_cmd") =>
                /\ cmds'[k].call # None
                /\ cmds'[k].call.fn = SaveFn(cmds'[k].group)
                /\ cmds'[k].call.chat_id = cmds'[k].chat_id
                /\ k \notin DOMAIN cmds =>
                      /\ k \in PendingWrites(cmds')
                      /\ \A g \in Groups, c \in Chats, f \in FieldKeys :
                            (/\ cmds'[k].group = g
                             /\ cmds'[k].chat_id = c
                             /\ cmds'[k].key = f) =>
                               CachedValue(g, c, f)' = cmds'[k].value.value
       /\ (/\ restart
           /\ db_enabled
           /\ \A k \in DOMAIN cmds : cmds[k].raised = "") =>
             /\ \A c \in Chats :
                   /\ _get_lang_cfg(c)' = _get_lang_cfg(c)
                   /\ _get_ti_cfg(c)' = _get_ti_cfg(c)
                   /\ _get_ui_lang(c)' = _get_ui_lang(c)
             /\ \A k \in DOMAIN cmds :
                   (/\ cmds[k].accepted
                    /\ cmds[k].call # None
                    /\ ~\E j \in DOMAIN cmds : j > k /\ SetsFieldOf(j, k)) =>
                      \A g \in Groups, c \in Chats, f \in FieldKeys :
                         (/\ cmds[k].group = g
                          /\ cmds[k].chat_id = c
                          /\ cmds[k].key = f) =>
                            cmds[k].value.value =
                               IF g = "ui" THEN _get_ui_lang(c)'
                               ELSE ReadsAs(g, c, f)'
      ]_vars

\* After /topics off and /language Vietnamese of a chat the process was
\* restarted; the chat's /anstatus of the new process loaded the analysis
\* group from the table and read topics off, and the table holds vi as the
\* chat's UI language while the new cache has not loaded it yet.
C23_Witness ==
    /\ db_enabled
    /\ Len(cmds) = 1
    /\ cmds[1].name = "ti_status_cmd"
    /\ cmds[1].sent = <<"settings">>
    /\ cmds[1].read.topics = FALSE
    /\ loads["analysis"][cmds[1].chat_id] = 1
    /\ ui_lang[cmds[1].chat_id] = NoLang
    /\ get_ui_language(cmds[1].chat_id) = "vi"

\* C24: a request that has sent a transcription-failure message, tailored or
\* generic, made two provider calls and both failed.
C24_FailureMessageOnlyAfterTwoFailures ==
    (SentKeys \cap {"vi_400_help", "transcribe_failed"} # {}) =>
       /\ Len(req.calls) = 2
       /\ ~req.calls[1].ok
       /\ ~req.calls[2].ok

\* The final outcomes of a media request.
FinalKeys ==
    {"couldnt_download_file", "document", "transcription_empty",
     "vi_400_help", "transcribe_failed"}

\* The final outcomes a request has sent, in order.
FinalSent == SelectSeq(req.sent, LAMBDA key : key \in FinalKeys)

C26_DownloadFailureEndsRequest ==
    [][/\ \A ok \in BOOLEAN :
             download_fail(ok) =>
                /\ req'.pc = "done"
                /\ req'.calls = <<>>
                /\ req'.sent = IF ok THEN <<"couldnt_download_file">> ELSE <<>>
       /\ (req.pc = "done" /\ nreqs' = nreqs) => req' = req
       /\ req'.pc = "download" => (req' = req \/ nreqs' = nreqs + 1)
       /\ req'.calls # req.calls =>
             (req'.calls = <<>> \/ req.temp_dir = "exists")
       /\ Len(SelectSeq(req'.sent,
                        LAMBDA key : key = "couldnt_download_file")) <= 1
      ]_vars

\* A finished request whose download failed: the could-not-download message
\* is all it sent, it made no provider call and kept no temp dir.
C26_Witness ==
    /\ req.pc = "done"
    /\ req.sent = <<"couldnt_download_file">>
    /\ req.calls = <<>>
    /\ req.temp_dir = "removed"
    /\ req.error = <<>>

\* C27: a step of a media or analysis request writes nothing to the table,
\* hands no write to a worker thread and leaves what every chat reads as its
\* speech, analysis and UI language settings as it was: a cached value stays,
\* and a missing cache entry is at most filled with the value loaded for it.
C27_RequestsPersistNothing ==
    [][req' # req =>
          /\ user_settings' = user_settings
          /\ threads' = threads
          /\ cmds' = cmds
          /\ \A c \in Chats :
                /\ _get_lang_cfg(c)' = _get_lang_cfg(c)
                /\ _get_ti_cfg(c)' = _get_ti_cfg(c)
                /\ _get_ui_lang(c)' = _get_ui_lang(c)
                /\ lang_cfg[c] # None => lang_cfg'[c] = lang_cfg[c]
                /\ ti_cfg[c] # None => ti_cfg'[c] = ti_cfg[c]
                /\ ui_lang[c] # NoLang => ui_lang'[c] = ui_lang[c]]_vars

\* /topics off of a chat lost its store write; an analysis request of the
\* chat then ran to its result document with topics off in its options, its
\* progress notice loaded the chat's UI language into the cache, and the
\* table still has no row of the chat.
C27_Witness ==
    /\ db_enabled
    /\ req.pc = "done"
    /\ req.sent = <<"analyzing_text", "analysis_document">>
    /\ req.calls[1].options.topics = FALSE
    /\ ti_cfg[req.chat_id].topics = FALSE
    /\ ui_lang[req.chat_id] = "en"
    /\ user_settings[req.chat_id] = None


\* The positions of a running analysis request.
AnPcs == DOMAIN AnReplies \cup {"an_call"}

\* C30: an analysis request makes at most one provider call.  Without the
\* analysis capability it makes none, and ends having sent the unavailability
\* message once and nothing else.  A failed provider call is not repeated
\* and does not leave the handler by an exception: the handler goes on to
\* send the failure message, and ends having sent it once after the progress
\* notice.  (Only a reply that Telegram refuses ends the handler without it.)
C30_OneCallNoRetry ==
    [][(req.pc \in AnPcs \/ req'.pc \in AnPcs) /\ req' # req =>
          /\ Len(req'.calls) <= 1
          /\ ~_DG_V3_AVAILABLE =>
                /\ req'.calls = <<>>
                /\ req'.sent \in {<<>>, <<"analyze_requires_upgrade">>}
                /\ req'.pc = "done" /\ req'.kind # "raised" =>
                       req'.sent = <<"analyze_requires_upgrade">>
          /\ (req'.calls # <<>> /\ ~req'.calls[1].ok) =>
                /\ req.pc = "an_call" =>
                       req'.pc = "an_error" /\ req'.kind # "raised"
                /\ req'.sent \in {<<"analyzing_text">>,
                                  <<"analyzing_text", "analyze_error">>}
                /\ req'.pc = "done" /\ req'.kind # "raised" =>
                       req'.sent = <<"analyzing_text", "analyze_error">>]_vars

\* A finished analysis request whose one provider call failed: the progress
\* notice and the failure message are what it sent, and no exception left
\* the handler.
C30_Witness ==
    /\ _DG_V3_AVAILABLE
    /\ req.pc = "done"
    /\ req.kind = ""
    /\ Len(req.calls) = 1
    /\ ~req.calls[1].ok
    /\ req.sent = <<"analyzing_text", "analyze_error">>


\* C29: when the store write of an administrator update fails, the step
\* leaves the table as it was and takes the handler to the reply "Failed to
\* update setting."; such a handler never sends a success reply, and when it
\* ends with its reply delivered, the failure reply is all it sent.
C29_AdminWriteFailureReported ==
    [][\A k \in DOMAIN cmds :
          cmds[k].name = "admin_set_cmd" =>
             /\ (cmds[k].write_result = "none"
                    /\ cmds'[k].write_result = "failed") =>
                   /\ user_settings' = user_settings
                   /\ cmds'[k].steps = <<"reply">>
                   /\ cmds'[k].reply = "failed"
             /\ cmds'[k].write_result = "failed" =>
                   /\ \A i \in DOMAIN cmds'[k].sent :
                         cmds'[k].sent[i] # "updated"
                   /\ (cmds'[k].steps = <<>> /\ cmds'[k].raised = "") =>
                         cmds'[k].sent = <<"failed">>]_vars

\* An administrator update of the speech language whose write failed: the
\* failure reply is all the caller got, and the chat still has no row.
C29_Witness ==
    \E k \in DOMAIN cmds :
        /\ cmds[k].name = "admin_set_cmd"
        /\ cmds[k].key = "language"
        /\ cmds[k].write_result = "failed"
        /\ cmds[k].steps = <<>>
        /\ cmds[k].sent = <<"failed">>
        /\ user_settings[cmds[k].chat_id] = None


\* C28: a store read that fails on a cache miss is passed over: every handler
\* of a command or request that has ended (its replies being delivered) was
\* not left by an exception and has sent a reply.
C28_ReadFailureSwallowed ==
    /\ \A k \in DOMAIN cmds :
          cmds[k].steps = <<>> => cmds[k].raised = "" /\ cmds[k].sent # <<>>
    /\ req.pc = "done" => req.kind # "raised" /\ req.sent # <<>>


\* The two UI languages.
UiValues == {"en", "vi"}

\* Every chat's cached UI language is missing, "en" or "vi", its stored one
\* is "en" or "vi", it reads as one of the two, and as "en" without a row.
UiLanguageIsEnOrVi ==
    \A c \in Chats :
       /\ ui_lang[c] \in UiValues \cup {NoLang}
       /\ user_settings[c] # None => user_settings[c].ui_language \in UiValues
       /\ _get_ui_lang(c) \in UiValues
       /\ user_settings[c] = None => get_ui_language(c) = "en"

\* C31: in every state the cached and the stored UI language of every chat
\* is "en" or "vi", and a chat without a stored value reads "en".  A
\* /language handler hands the store the value its argument parsed to, one
\* of the two; a handler whose argument did not parse hands the store
\* nothing, and none of its steps changes the table or the language the chat
\* reads.
C31_UiLanguageIsEnOrVi ==
    [][/\ UiLanguageIsEnOrVi
       /\ UiLanguageIsEnOrVi'
       /\ \A k \in DOMAIN cmds' :
             cmds'[k].name = "language_cmd" =>
                LET parsed == IF cmds'[k].arg = NoArg THEN ""
                              ELSE _parse_ui_lang(cmds'[k].arg)
                IN  IF parsed = ""
                    THEN /\ cmds'[k].call = None
                         /\ (k \notin DOMAIN cmds \/ cmds'[k] # cmds[k]) =>
                               /\ user_settings' = user_settings
                               /\ \A c \in Chats :
                                     _get_ui_lang(c)' = _get_ui_lang(c)
                    ELSE /\ parsed \in UiValues
                         /\ cmds'[k].call.cfg.lang = parsed]_vars

\* /language Vietnamese of a chat was stored and /language fr was answered
\* with the usage text: the chat's cached and stored UI language are "vi".
C31_Witness ==
    \E k, j \in DOMAIN cmds :
        /\ cmds[k].chat_id = cmds[j].chat_id
        /\ cmds[k].name = "language_cmd" /\ cmds[k].arg = "Vietnamese"
        /\ cmds[k].steps = <<>> /\ cmds[k].write_result = "ok"
        /\ j > k
        /\ cmds[j].name = "language_cmd" /\ cmds[j].arg = "fr"
        /\ cmds[j].sent = <<"language_usage">>
        /\ db_enabled
        /\ ui_lang[cmds[k].chat_id] = "vi"
        /\ user_settings[cmds[k].chat_id].ui_language = "vi"


\* The step is one of handler k: it started the handler or moved it on.
StepOf(k) == k \in DOMAIN cmds' /\ (k \notin DOMAIN cmds \/ cmds'[k] # cmds[k])

\* C32: a step of a user settings command handled for a chat (its start, its
\* reply, its store write running or failing) leaves the cached speech,
\* analysis and UI-language values and the stored row of every other chat as
\* they were, whatever handlers of other chats are under way.
C32_CrossChatIsolation ==
    [][\A k \in DOMAIN cmds' :
          StepOf(k) =>
             \A b \in Chats \ {cmds'[k].chat_id} :
                /\ lang_cfg'[b] = lang_cfg[b]
                /\ ti_cfg'[b] = ti_cfg[b]
                /\ ui_lang'[b] = ui_lang[b]
                /\ user_settings'[b] = user_settings[b]]_vars

\* /topics off of one chat and /speechlang vi of another both ran to their
\* end with their writes stored: each chat's row and caches hold its own
\* change and not the other's.
C32_Witness ==
    \E k, j \in DOMAIN cmds :
        LET a == cmds[k].chat_id
            b == cmds[j].chat_id
        IN  /\ a # b
            /\ db_enabled
            /\ cmds[k].name = "topics_cmd" /\ cmds[k].write_result = "ok"
            /\ cmds[j].name = "speechlang_cmd" /\ cmds[j].write_result = "ok"
            /\ cmds[k].steps = <<>> /\ cmds[j].steps = <<>>
            /\ user_settings[a].topics = FALSE
            /\ user_settings[a].language = "en-US"
            /\ user_settings[b].topics = TRUE
            /\ user_settings[b].language = "vi"
            /\ ti_cfg[a].topics = FALSE
            /\ ti_cfg[b] = None
            /\ lang_cfg[b].language = "vi"
            /\ lang_cfg[a] = None


\* The speech settings of chat c have detect_language = d and language = l.
SpeechIs(cfg, d, l) == cfg # None /\ cfg.detect_language = d /\ cfg.language = l

\* C33: /lang <code> and /speechlang en|vi set the language and turn
\* detect_language off; /lang auto, /speechlang auto and /detect on turn
\* detect_language on and keep the language the chat had; /detect off turns
\* it off and keeps the language, so the options of a request carry that
\* language again.  A store write of the speech settings stores the language
\* and detect_language of the cache together, and a request's options have
\* the language exactly when detect_language is off.
C33_LanguageAndDetectCoherent ==
    [][/\ \A c \in Chats :
             LET before == _get_lang_cfg(c).language IN
             /\ \A a \in LangWords :
                   lang_cmd(c, a) =>
                      IF Lower(a) = "auto"
                      THEN SpeechIs(lang_cfg'[c], TRUE, before)
                      ELSE SpeechIs(lang_cfg'[c], FALSE, a)
             /\ detect_cmd(c, "on") => SpeechIs(lang_cfg'[c], TRUE, before)
             /\ detect_cmd(c, "OFF") =>
                   /\ SpeechIs(lang_cfg'[c], FALSE, before)
                   /\ dg_opts(lang_cfg'[c]).language = before
             /\ speechlang_cmd(c, "auto") =>
                   SpeechIs(lang_cfg'[c], TRUE, before)
             /\ speechlang_cmd(c, "vi") => SpeechIs(lang_cfg'[c], FALSE, "vi")
             /\ user_settings'[c] # user_settings[c] =>
                   /\ user_settings'[c].language = lang_cfg[c].language
                   /\ user_settings'[c].detect_language =
                         lang_cfg[c].detect_language
       /\ notify_ok =>
             LET cfg == lang_cfg[req.chat_id] IN
             IF cfg.detect_language
             THEN "language" \notin DOMAIN req'.dg_opts
             ELSE req'.dg_opts.language = cfg.language]_vars

\* /speechlang vi and then /speechlang auto of a chat ran to their end, a
\* /detect off followed, and a request of the chat then called the provider
\* with language vi: the language set before auto-detect is in use again.
C33_Witness ==
    /\ Len(cmds) = 2
    /\ cmds[1].chat_id = cmds[2].chat_id
    /\ cmds[1].name = "speechlang_cmd" /\ cmds[1].arg = "vi"
    /\ cmds[2].name = "speechlang_cmd" /\ cmds[2].arg = "auto"
    /\ cmds[1].steps = <<>> /\ cmds[2].steps = <<>>
    /\ nops = 1
    /\ lang_cfg[cmds[1].chat_id] =
          [detect_language |-> FALSE, language |-> "vi", model |-> ""]
    /\ req.pc = "done"
    /\ req.chat_id = cmds[1].chat_id
    /\ req.calls # <<>>
    /\ "language" \in DOMAIN req.calls[1].options
    /\ req.calls[1].options.language = "vi"


\* C34: a finished media request has had the temporary directory of its
\* download removed, whatever its outcome; the directory exists only while
\* the request is between its download and its end.
C34_TempDirRemoved ==
    /\ req.pc = "done" => req.temp_dir = "removed"
    /\ req.temp_dir = "exists" => req.pc \notin {"idle", "download", "done"}
    /\ req.pc \in {"idle", "download"} => req.temp_dir = "none"

\* A request whose two provider calls failed and whose failure message could
\* not be sent either has ended with its temporary directory removed.
C34_Witness ==
    /\ req.pc = "done"
    /\ Len(req.calls) = 2
    /\ ~req.calls[1].ok /\ ~req.calls[2].ok
    /\ req.sent = <<"transcribing">>
    /\ req.temp_dir = "removed"

====
